---- MODULE Spec2Model ----
(***************************************************************************)
(* Device command execution engine of sera-otonom: the RelayController     *)
(* (actions/relay_control.py), the ActionExecutor (actions/executor.py)    *)
(* and the producer of the action queue (core/brain.py), over the          *)
(* device_states section of the state store (utils/state_manager.py); and  *)
(* the periodic task scheduler (core/scheduler.py).                        *)
(*                                                                         *)
(* Time is counted in whole minutes.  Everything runs on one asyncio event *)
(* loop: a coroutine runs without interruption from one suspension point   *)
(* to the next, and the only suspension points of the engine are the await *)
(* of the downlink transport and the sleep of a deferred auto-off.  One    *)
(* TLA+ action is one such uninterrupted run.                              *)
(***************************************************************************)
EXTENDS Integers, Sequences, FiniteSets, TLC

\* ------------------------------------------------------------------ bounds
MaxTime == 2
MaxActions == 2
MaxCalls == 2
MaxProcessed == 4
MaxOps == 5
MaxThreads == 2
MaxClock == 6

\* ----------------------------------------------------------- configuration
\* devices.yaml: the configured relays and their max_on_duration_minutes
Devices == {"pump_01", "fan_01"}
UnknownDevice == "pump_02"
NoDevice == ""
PumpMaxOn == 2
FanMaxOn == 3
\* thresholds.yaml action_intervals.defaults (minutes between ON actions)
PumpInterval == 2
FanInterval == 1
DefaultInterval == 2

NULL == -1
\* a duration_minutes that is not a number (JSON string "30" of a decision)
NotANumber == -2
\* an action kind that is not a string (JSON null of a decision)
NotAString == "<null>"
\* a requested duration above every device's maximum
LongDuration == FanMaxOn + 1
NoReason == "none"

max_retries == 3

\* ------------------------------------------------------------------- state
VARIABLES
    now,                  \* the clock, datetime.utcnow() in minutes
    devices,              \* device_states["devices"]: device id -> entry
    pending_actions,      \* device_states["pending_actions"]
    last_downlink,        \* device_states["last_downlink"]
    scheduled_off_tasks,  \* RelayController._scheduled_off_tasks: device id -> task
    tasks,                \* the deferred auto-off tasks that are alive: task -> record
    calls,                \* turn_on / turn_off calls suspended in the transport, by caller
    exec,                 \* the process_pending_actions pass
    next_id,              \* ids handed out to enqueued actions so far
    ncalls,               \* direct controller calls made so far
    last_on_done,         \* device id -> when the executor last completed an ON
                          \* action for it (observation only)
    ev,                   \* what the last step did (observation only)
    stats,                \* ActionExecutor.stats
    sweep,                \* the check_scheduled_shutoffs call in progress
    sched_tasks,          \* SeraScheduler.tasks: name -> ScheduledTask object
    task_objs,            \* the ScheduledTask objects that are referenced
    loops,                \* the _task_loop asyncio tasks that are not done
    manual,               \* the run_task_once calls suspended in the callback
    is_running,           \* SeraScheduler.is_running
    stop_event,           \* SeraScheduler._stop_event is set
    stopper,              \* the stop() call in progress
    made,                 \* scheduler methods called and loop executions started so far
    sev,                  \* what the last scheduler step did (observation only)
    state_files,          \* the JSON files of state_dir: state name -> document
    state_locks,          \* StateManager._locks: state name -> the thread holding the lock
    state_cache,          \* StateManager._cache: state name -> document
    store_calls,          \* the read / write / update calls of the threads: thread -> call
    clock,                \* the time of the event loop, in half intervals
    timed_tasks,          \* SeraScheduler.tasks of the timed scheduler: name -> task
    timed_loops,          \* its _task_loop tasks: name -> position, wake-up time
    timed_started,        \* when start() was called, None when it is not running
    passes,               \* the process_pending_actions invocations that can overlap
    applied               \* the actions whose relay command succeeded, in
                          \* the order of the successes (observation only)

engineVars == <<now, devices, pending_actions, last_downlink, scheduled_off_tasks,
                tasks, calls, exec, next_id, ncalls, last_on_done, ev, stats, sweep>>

schedVars == <<sched_tasks, task_objs, loops, manual, is_running, stop_event, stopper, made, sev>>

storeVars == <<state_files, state_locks, state_cache, store_calls>>

timedVars == <<clock, timed_tasks, timed_loops, timed_started>>

overlapVars == <<passes, applied>>

vars == <<now, devices, pending_actions, last_downlink, scheduled_off_tasks,
          tasks, calls, exec, next_id, ncalls, last_on_done, ev, stats, sweep,
          sched_tasks, task_objs, loops, manual, is_running, stop_event, stopper, made, sev,
          state_files, state_locks, state_cache, store_calls,
          clock, timed_tasks, timed_loops, timed_started,
          passes, applied>>

\* The part of the state the controller and the executor read and write.
World == [devices |-> devices, pending_actions |-> pending_actions,
          last_downlink |-> last_downlink,
          scheduled_off_tasks |-> scheduled_off_tasks, tasks |-> tasks]

Commit(W) ==
    /\ devices' = W.devices
    /\ pending_actions' = W.pending_actions
    /\ last_downlink' = W.last_downlink
    /\ scheduled_off_tasks' = W.scheduled_off_tasks
    /\ tasks' = W.tasks

\* ----------------------------------------------------------------- helpers
Without(f, k) == [x \in (DOMAIN f) \ {k} |-> f[x]]
With(f, k, v) == [x \in (DOMAIN f) \cup {k} |-> IF x = k THEN v ELSE f[x]]
Empty == [x \in {} |-> NULL]

\* Python truthiness of an optional number: None and 0 are false
Truthy(n) == n # NULL /\ n # 0

\* ------------------------------------------------------- relay controller
MaxOnDuration(d) == IF d = "pump_01" THEN PumpMaxOn ELSE FanMaxOn

\* the entry _update_device_state creates for a device it has not seen
NewDeviceEntry ==
    [state |-> "off", last_changed |-> NULL, current_operation |-> NoReason,
     scheduled_off |-> NULL, total_on_time_today_minutes |-> 0,
     last_on_duration_minutes |-> NULL, last_on_action_time |-> NULL,
     error |-> NULL]

GetDeviceState(W, d) ==
    IF d \in DOMAIN W.devices THEN W.devices[d] ELSE NewDeviceEntry

UpdateDeviceState(W, d, state, timestamp, scheduled_off, last_on_duration, reason) ==
    LET old == GetDeviceState(W, d)
        e1  == [old EXCEPT !.state = state,
                           !.last_changed = timestamp,
                           !.current_operation = reason,
                           !.scheduled_off = scheduled_off,
                           !.error = NULL]
        e2  == IF last_on_duration # NULL
               THEN [e1 EXCEPT !.last_on_duration_minutes = last_on_duration,
                               !.total_on_time_today_minutes =
                                   old.total_on_time_today_minutes + last_on_duration]
               ELSE e1
    IN [W EXCEPT !.devices = With(W.devices, d, e2),
                 !.last_downlink = [device_id |-> d, command |-> state,
                                    timestamp |-> timestamp]]

CancelTaskForgotten(ts, id) == ts

\* task.cancel() on a task that is not done: the task never runs again
CancelTask(ts, id) == Without(ts, id)

CancelScheduledOff(W, d) ==
    IF d \in DOMAIN W.scheduled_off_tasks
    THEN [W EXCEPT !.scheduled_off_tasks = Without(W.scheduled_off_tasks, d),
                   !.tasks = CancelTask(W.tasks, W.scheduled_off_tasks[d])]
    ELSE W

\* a task object distinct from every task that is alive or still registered
TaskIds == 1..(2 * Cardinality(Devices) + 2)
FreshTask(W) ==
    CHOOSE i \in TaskIds :
        /\ i \notin DOMAIN W.tasks
        /\ \A d \in DOMAIN W.scheduled_off_tasks : W.scheduled_off_tasks[d] # i

\* schedule_off: cancel the registered task, create and register a new one
\* that sleeps after_minutes and then calls turn_off
ScheduleOff(W, d, after_minutes, by) ==
    LET W1 == CancelScheduledOff(W, d)
        id == FreshTask(W1)
    IN [W1 EXCEPT !.tasks = With(W1.tasks, id,
                                 [dev |-> d, delay |-> after_minutes,
                                  due |-> now + after_minutes, by |-> by,
                                  stale |-> "no"]),
                  !.scheduled_off_tasks = With(W1.scheduled_off_tasks, d, id)]

CapDurationUncapped(d, duration_minutes) == duration_minutes

CapDuration(d, duration_minutes) ==
    IF Truthy(duration_minutes) /\ duration_minutes > MaxOnDuration(d)
    THEN MaxOnDuration(d)
    ELSE duration_minutes

\* turn_on up to the await of the transport (relay_control.py 74-112).
\* res = "unknown": returned a failed result already; "await": suspended;
\* "raised": the comparison of a non-numeric duration with the maximum raised
\* TypeError, before anything was changed.
\* Observation only: what the registered auto-off of d is doing when a
\* command cancels it ("due": its sleep is over but it has not run yet).
Registered(W, d) ==
    IF d \in DOMAIN W.scheduled_off_tasks /\ W.scheduled_off_tasks[d] \in DOMAIN W.tasks
    THEN IF now >= W.tasks[W.scheduled_off_tasks[d]].due THEN "due" ELSE "sleeping"
    ELSE "none"

\* Observation only: the auto-offs of d that are alive when a turn_on begins
\* are marked "begun", and "succeeded" once a turn_on of d has succeeded.
MarkStale(W, d, from, to) ==
    [W EXCEPT !.tasks = [i \in DOMAIN W.tasks |->
        IF W.tasks[i].dev = d /\ W.tasks[i].stale = from
        THEN [W.tasks[i] EXCEPT !.stale = to] ELSE W.tasks[i]]]

NoCall == [op |-> "none", dev |-> "", req |-> NULL, dur |-> NULL, ts |-> NULL,
           on_duration |-> NULL, reason |-> NoReason, cancelled |-> "none"]

TurnOnBeginKeepsTimer(W, d, duration_minutes, reason) ==
    IF d \notin Devices
    THEN [W |-> W, res |-> "unknown", call |-> NoCall]
    ELSE IF duration_minutes = NotANumber
    THEN [W |-> W, res |-> "raised", call |-> NoCall]
    ELSE [W |-> MarkStale(W, d, "no", "begun"), res |-> "await",
          call |-> [op |-> "on", dev |-> d, req |-> duration_minutes,
                    dur |-> CapDuration(d, duration_minutes),
                    ts |-> now, on_duration |-> NULL, reason |-> reason,
                    cancelled |-> "none"]]

TurnOnBegin(W, d, duration_minutes, reason) ==
    IF d \notin Devices
    THEN [W |-> W, res |-> "unknown", call |-> NoCall]
    ELSE IF duration_minutes = NotANumber
    THEN [W |-> W, res |-> "raised", call |-> NoCall]
    ELSE [W |-> CancelScheduledOff(MarkStale(W, d, "no", "begun"), d), res |-> "await",
          call |-> [op |-> "on", dev |-> d, req |-> duration_minutes,
                    dur |-> CapDuration(d, duration_minutes),
                    ts |-> now, on_duration |-> NULL, reason |-> reason,
                    cancelled |-> Registered(W, d)]]

\* turn_on from the answer of the transport on (relay_control.py 114-155)
TurnOnFinish(W, c, outcome) ==
    IF outcome # "success"
    THEN W
    ELSE LET W0 == MarkStale(W, c.dev, "begun", "succeeded")
             W1 == IF Truthy(c.dur) THEN ScheduleOff(W0, c.dev, c.dur, "turn_on") ELSE W0
         IN UpdateDeviceState(W1, c.dev, "on", c.ts,
                              IF Truthy(c.dur) THEN c.ts + c.dur ELSE NULL,
                              NULL, c.reason)

TurnOffBeginAnyDevice(W, d, reason) ==
    LET W1 == CancelScheduledOff(W, d)
    IN [W |-> W1, res |-> "await",
        call |-> [op |-> "off", dev |-> d, req |-> NULL, dur |-> NULL, ts |-> now,
                  on_duration |-> NULL, reason |-> reason, cancelled |-> Registered(W, d)]]

\* turn_off up to the await of the transport (relay_control.py 172-215)
TurnOffBegin(W, d, reason) ==
    IF d \notin Devices
    THEN [W |-> W, res |-> "unknown", call |-> NoCall]
    ELSE LET W1 == CancelScheduledOff(W, d)
             st == GetDeviceState(W1, d)
         IN [W |-> W1, res |-> "await",
             call |-> [op |-> "off", dev |-> d, req |-> NULL, dur |-> NULL,
                       ts |-> now,
                       on_duration |-> IF st.state = "on" /\ st.last_changed # NULL
                                       THEN now - st.last_changed ELSE NULL,
                       reason |-> reason, cancelled |-> Registered(W, d)]]

TurnOffFinishAlways(W, c, outcome) ==
    UpdateDeviceState(W, c.dev, "off", c.ts, NULL, c.on_duration, c.reason)

\* turn_off from the answer of the transport on (relay_control.py 217-253)
TurnOffFinish(W, c, outcome) ==
    IF outcome # "success"
    THEN W
    ELSE UpdateDeviceState(W, c.dev, "off", c.ts, NULL, c.on_duration, c.reason)

Finish(W, c, outcome) ==
    IF c.op = "on" THEN TurnOnFinish(W, c, outcome) ELSE TurnOffFinish(W, c, outcome)

\* --------------------------------------------------------- action executor
\* the action kinds a decision can carry; "valve_on" stands for a kind the
\* executor has no handler for
Kinds == {"pump_on", "pump_off", "fan_on", "fan_off", "none", "valve_on"}

\* the kinds process_single_action has a handler for
KnownKinds == {"pump_on", "pump_off", "fan_on", "fan_off", "none"}

IsOnActionAlways(action_type) == TRUE

\* _is_on_action: action_type.endswith("_on")
IsOnAction(action_type) == action_type \in {"pump_on", "fan_on", "valve_on"}

\* device_id.split("_")[0]
DeviceType(d) ==
    IF d \in {"pump_01", "pump_02"} THEN "pump"
    ELSE IF d = "fan_01" THEN "fan" ELSE d

\* _get_device_interval_minutes with no per-device entry in action_intervals
GetDeviceIntervalMinutes(d) ==
    IF DeviceType(d) = "pump" THEN PumpInterval
    ELSE IF DeviceType(d) = "fan" THEN FanInterval
    ELSE DefaultInterval

CheckActionIntervalNoLimit(W, d, action_type) == TRUE

\* _check_action_interval: TRUE when the action is allowed
CheckActionInterval(W, d, action_type) ==
    IF ~ IsOnAction(action_type) THEN TRUE
    ELSE LET last == IF d \in DOMAIN W.devices
                     THEN W.devices[d].last_on_action_time ELSE NULL
         IN IF last = NULL THEN TRUE
            ELSE (now - last) >= GetDeviceIntervalMinutes(d)

UpdateLastOnActionTimeNever(W, d) == W

\* _update_last_on_action_time
UpdateLastOnActionTime(W, d) ==
    IF d \in DOMAIN W.devices
    THEN [W EXCEPT !.devices[d].last_on_action_time = now]
    ELSE W

\* the first queue entry with this id (the loops break at the first match)
FirstWithId(q, id) ==
    IF \E i \in 1..Len(q) : q[i].id = id
    THEN CHOOSE i \in 1..Len(q) : q[i].id = id /\ \A j \in 1..(i - 1) : q[j].id # id
    ELSE 0

\* _update_action_status (last_updated and error are not modelled)
UpdateActionStatus(W, id, status) ==
    LET i == FirstWithId(W.pending_actions, id)
    IN IF i = 0 THEN W
       ELSE [W EXCEPT !.pending_actions[i].status = status]

UpdateActionRetryKeepsExecuting(W, id, retry_count) ==
    LET i == FirstWithId(W.pending_actions, id)
    IN IF i = 0 THEN W
       ELSE [W EXCEPT !.pending_actions[i].retry_count = retry_count]

\* _update_action_retry
UpdateActionRetry(W, id, retry_count) ==
    LET i == FirstWithId(W.pending_actions, id)
    IN IF i = 0 THEN W
       ELSE [W EXCEPT !.pending_actions[i].retry_count = retry_count,
                      !.pending_actions[i].status = "pending"]

\* _remove_action
RemoveAction(W, id) ==
    [W EXCEPT !.pending_actions = SelectSeq(W.pending_actions, LAMBDA a : a.id # id)]

\* Observation only: minutes since the executor last completed an ON action
\* for the device
Gap(lod, d) == IF d \in DOMAIN lod THEN now - lod[d] ELSE NULL

\* ActionResult, with what holds in the store when the result is returned
Result(W, a, status, outcome, dispatched, gap) ==
    LET i == FirstWithId(W.pending_actions, a.id)
    IN [id |-> a.id, status |-> status, action |-> a.action, device |-> a.device,
        rc |-> a.retry_count, outcome |-> outcome, dispatched |-> dispatched,
        gap |-> gap, queued |-> i # 0, error |-> "none",
        rc_after |-> IF i = 0 THEN NULL ELSE W.pending_actions[i].retry_count,
        status_after |-> IF i = 0 THEN "none" ELSE W.pending_actions[i].status]

ProcessResultEarlyFail(W, a, outcome, dispatched, gap) ==
    IF outcome = "success"
    THEN LET W1 == RemoveAction(UpdateActionStatus(W, a.id, "completed"), a.id)
         IN [W |-> W1, result |-> Result(W1, a, "completed", outcome, dispatched, gap)]
    ELSE IF a.retry_count < max_retries - 1
    THEN LET W1 == UpdateActionRetry(W, a.id, a.retry_count + 1)
         IN [W |-> W1, result |-> Result(W1, a, "pending", outcome, dispatched, gap)]
    ELSE LET W1 == RemoveAction(UpdateActionStatus(W, a.id, "failed"), a.id)
         IN [W |-> W1, result |-> Result(W1, a, "failed", outcome, dispatched, gap)]

ProcessResultOffByOne(W, a, outcome, dispatched, gap) ==
    IF outcome = "success"
    THEN LET W1 == RemoveAction(UpdateActionStatus(W, a.id, "completed"), a.id)
         IN [W |-> W1, result |-> Result(W1, a, "completed", outcome, dispatched, gap)]
    ELSE IF a.retry_count <= max_retries
    THEN LET W1 == UpdateActionRetry(W, a.id, a.retry_count + 1)
         IN [W |-> W1, result |-> Result(W1, a, "pending", outcome, dispatched, gap)]
    ELSE LET W1 == RemoveAction(UpdateActionStatus(W, a.id, "failed"), a.id)
         IN [W |-> W1, result |-> Result(W1, a, "failed", outcome, dispatched, gap)]

\* process_single_action from the RelayCommandResult on (executor.py 256-289)
ProcessResult(W, a, outcome, dispatched, gap) ==
    IF outcome = "success"
    THEN LET W1 == RemoveAction(UpdateActionStatus(W, a.id, "completed"), a.id)
         IN [W |-> W1, result |-> Result(W1, a, "completed", outcome, dispatched, gap)]
    ELSE IF a.retry_count < max_retries
    THEN LET W1 == UpdateActionRetry(W, a.id, a.retry_count + 1)
         IN [W |-> W1, result |-> Result(W1, a, "pending", outcome, dispatched, gap)]
    ELSE LET W1 == RemoveAction(UpdateActionStatus(W, a.id, "failed"), a.id)
         IN [W |-> W1, result |-> Result(W1, a, "failed", outcome, dispatched, gap)]

HandleNoneDispatches(W, a) ==
    [W |-> UpdateDeviceState(RemoveAction(W, a.id), a.device, "on", now, NULL, NULL,
                             "decision"),
     status |-> "skipped", dispatched |-> "turn_on"]

\* kind "none" (executor.py 234-243): marked completed, removed, Skipped
HandleNone(W, a) ==
    [W |-> RemoveAction(UpdateActionStatus(W, a.id, "completed"), a.id),
     status |-> "skipped", dispatched |-> "none"]

\* a kind without handler (executor.py 244-254): marked failed, removed, Failed
HandleUnknown(W, a) ==
    [W |-> RemoveAction(UpdateActionStatus(W, a.id, "failed"), a.id),
     status |-> "failed", dispatched |-> "none"]

HandleIntervalSkipStamps(W, a) ==
    [W |-> UpdateLastOnActionTime(RemoveAction(W, a.id), a.device),
     status |-> "skipped", dispatched |-> "none"]

\* an ON action refused by the interval check (executor.py 209-219): marked
\* skipped, removed, Skipped
HandleIntervalSkip(W, a) ==
    [W |-> RemoveAction(UpdateActionStatus(W, a.id, "skipped"), a.id),
     status |-> "skipped", dispatched |-> "none"]

\* the except branch of process_single_action (executor.py 291-300)
HandleException(W, a) ==
    RemoveAction(UpdateActionStatus(W, a.id, "failed"), a.id)

\* process_single_action up to the await of the transport, or to its return
\* when it does not get there (executor.py 200-254, 291-356).
\* res = "returned": result is the ActionResult; "await": suspended in call;
\* "raised": an exception left process_single_action (_is_on_action of a
\* kind that is not a string, evaluated outside the try block).
ProcessSingleBegin(W, lod, a) ==
    LET gap == Gap(lod, a.device)
        ret(h) ==
            [W |-> h.W, res |-> "returned", call |-> NoCall,
             result |-> Result(h.W, a, h.status, "none", h.dispatched, gap)]
    IN IF a.device # NoDevice /\ a.action = NotAString
       THEN [W |-> W, res |-> "raised", call |-> NoCall,
             result |-> Result(W, a, "none", "exception", "none", gap)]
       ELSE IF a.device # NoDevice /\ IsOnAction(a.action)
          /\ ~ CheckActionInterval(W, a.device, a.action)
       THEN LET h == HandleIntervalSkip(W, a)
            IN [ret(h) EXCEPT !.result.error = "interval_not_met"]
       ELSE LET W1 == UpdateActionStatus(W, a.id, "executing")
            IN IF a.action \in {"pump_on", "fan_on", "pump_off", "fan_off"}
               THEN LET on == a.action \in {"pump_on", "fan_on"}
                        b  == IF on
                              THEN TurnOnBegin(W1, a.device, a.duration_minutes, "decision")
                              ELSE TurnOffBegin(W1, a.device, "decision")
                        dispatched == IF on THEN "turn_on" ELSE "turn_off"
                    IN IF b.res = "await"
                       THEN [W |-> b.W, res |-> "await", call |-> b.call,
                             result |-> Result(b.W, a, "executing", "none", dispatched, gap)]
                       ELSE IF b.res = "raised"
                       THEN LET W2 == HandleException(b.W, a)
                            IN [W |-> W2, res |-> "returned", call |-> NoCall,
                                result |-> Result(W2, a, "failed", "exception",
                                                  dispatched, gap)]
                       ELSE LET r == ProcessResult(b.W, a, "unknown_device", dispatched, gap)
                            IN [W |-> r.W, res |-> "returned", call |-> NoCall,
                                result |-> r.result]
               ELSE IF a.action = "none"
               THEN ret(HandleNone(W1, a))
               ELSE ret(HandleUnknown(W1, a))

ProcessSingleResumeStampsOff(W, a, call, outcome, gap) ==
    LET W1 == Finish(W, call, outcome)
        W2 == IF outcome = "success"
              THEN UpdateLastOnActionTime(W1, call.dev) ELSE W1
    IN ProcessResult(W2, a, outcome, IF call.op = "on" THEN "turn_on" ELSE "turn_off",
                     gap)

\* process_single_action from the answer of the transport on
ProcessSingleResume(W, a, call, outcome, gap) ==
    LET W1 == Finish(W, call, outcome)
        W2 == IF call.op = "on" /\ outcome = "success"
              THEN UpdateLastOnActionTime(W1, call.dev) ELSE W1
    IN ProcessResult(W2, a, outcome, IF call.op = "on" THEN "turn_on" ELSE "turn_off",
                     gap)

\* the loop of process_pending_actions from entry idx of the snapshot on, up
\* to the next await of the transport or to the end of the pass; aborted: an
\* exception left process_single_action and the pass returned what it had
RECURSIVE RunPass(_, _, _, _, _)
RunPass(W, lod, snap, idx, results) ==
    IF idx > Len(snap)
    THEN [W |-> W, pc |-> "idle", idx |-> idx, results |-> results, call |-> NoCall,
          gap |-> NULL, aborted |-> FALSE]
    ELSE LET p == ProcessSingleBegin(W, lod, snap[idx])
         IN IF p.res = "await"
            THEN [W |-> p.W, pc |-> "await", idx |-> idx, results |-> results,
                  call |-> p.call, gap |-> p.result.gap, aborted |-> FALSE]
            ELSE IF p.res = "raised"
            THEN [W |-> p.W, pc |-> "idle", idx |-> idx, results |-> results,
                  call |-> NoCall, gap |-> NULL, aborted |-> TRUE]
            ELSE RunPass(p.W, lod, snap, idx + 1, Append(results, p.result))

\* ExecutorStats
NoStats == [total_processed |-> 0, successful |-> 0, failed |-> 0, skipped |-> 0,
            last_run |-> NULL]

CountStatus(rs, status) == Cardinality({i \in 1..Len(rs) : rs[i].status = status})

\* the statistics after the results rs have been returned (executor.py 173-180)
UpdateStats(st, rs) ==
    [st EXCEPT !.total_processed = @ + Len(rs),
               !.successful = @ + CountStatus(rs, "completed"),
               !.failed = @ + CountStatus(rs, "failed"),
               !.skipped = @ + CountStatus(rs, "skipped")]

EndOfPassAlways(st, snap) == [st EXCEPT !.last_run = now]

\* the end of a pass that was not aborted: an empty queue returns before
\* last_run is set (executor.py 162-164, 182)
EndOfPass(st, snap) ==
    IF snap = <<>> THEN st ELSE [st EXCEPT !.last_run = now]

ShutoffDueAnyTime(e, at) == e.scheduled_off # NULL /\ e.state = "on"

\* the device entry asks for a shutoff at the time the sweep started
\* (executor.py 449-453)
ShutoffDue(e, at) ==
    e.scheduled_off # NULL /\ e.state = "on" /\ at >= e.scheduled_off

\* the loop of check_scheduled_shutoffs over the device entries it read, up
\* to the next await of the transport or to its end
RECURSIVE RunSweep(_, _, _, _, _)
RunSweep(W, snap, at, todo, triggered) ==
    IF todo = <<>>
    THEN [W |-> W, pc |-> "idle", todo |-> todo, triggered |-> triggered,
          call |-> NoCall]
    ELSE IF ShutoffDue(snap[Head(todo)], at)
    THEN LET b == TurnOffBegin(W, Head(todo), "scheduled_shutoff")
         IN IF b.res = "await"
            THEN [W |-> b.W, pc |-> "await", todo |-> todo, triggered |-> triggered,
                  call |-> b.call]
            ELSE RunSweep(b.W, snap, at, Tail(todo), Append(triggered, Head(todo)))
    ELSE RunSweep(W, snap, at, Tail(todo), triggered)

\* the orders in which a dict with the keys S can be iterated
Orders(S) ==
    {o \in [1..Cardinality(S) -> S] : \A i, j \in 1..Cardinality(S) : o[i] = o[j] => i = j}

\* ------------------------------------------------------------ observation
\* what the await of send_relay_command gives: a result with success, or a
\* result without success or an exception, which turn_on / turn_off turn into
\* the same failed RelayCommandResult (only the error text differs)
Outcomes == {"success", "failure"}
Durations == {NULL, 1, LongDuration}
Callers == {"m1", "m2"}

Ev(kind, dev, outcome, result, call, stale) ==
    [kind |-> kind, dev |-> dev, outcome |-> outcome, result |-> result,
     call |-> call, stale |-> stale, results |-> <<>>, triggered |-> <<>>]

NoEv == Ev("init", NoDevice, "none", "none", NoCall, "no")

\* ----------------------------------------------------------------- actions
Tick ==
    /\ now < MaxTime
    /\ now' = now + 1
    /\ ev' = Ev("tick", NoDevice, "none", "none", NoCall, "no")
    /\ UNCHANGED <<devices, pending_actions, last_downlink, scheduled_off_tasks,
                   tasks, calls, exec, next_id, ncalls, last_on_done, stats, sweep>>
    /\ UNCHANGED <<schedVars, storeVars, timedVars, overlapVars>>

\* routes/control.py manual_override, action "on": a direct turn_on
ManualTurnOn(c, d, duration_minutes) ==
    /\ c \notin DOMAIN calls
    /\ ncalls < MaxCalls
    /\ ncalls' = ncalls + 1
    /\ LET b == TurnOnBegin(World, d, duration_minutes, "manual_override")
       IN /\ Commit(b.W)
          /\ IF b.res = "await"
             THEN /\ calls' = With(calls, c, b.call)
                  /\ ev' = Ev("begin", d, "none", "await", b.call, "no")
             ELSE /\ calls' = calls
                  /\ ev' = Ev("turn_on", d, "none", "unknown_device", NoCall, "no")
    /\ UNCHANGED <<now, exec, next_id, last_on_done, stats, sweep>>
    /\ UNCHANGED <<schedVars, storeVars, timedVars, overlapVars>>

\* routes/control.py manual_override, action "off": a direct turn_off
ManualTurnOff(c, d) ==
    /\ c \notin DOMAIN calls
    /\ ncalls < MaxCalls
    /\ ncalls' = ncalls + 1
    /\ LET b == TurnOffBegin(World, d, "manual_override")
       IN /\ Commit(b.W)
          /\ IF b.res = "await"
             THEN /\ calls' = With(calls, c, b.call)
                  /\ ev' = Ev("begin", d, "none", "await", b.call, "no")
             ELSE /\ calls' = calls
                  /\ ev' = Ev("turn_off", d, "none", "unknown_device", NoCall, "no")
    /\ UNCHANGED <<now, exec, next_id, last_on_done, stats, sweep>>
    /\ UNCHANGED <<schedVars, storeVars, timedVars, overlapVars>>

\* send_relay_command answers a suspended direct call, which runs to its end
TransportAnswer(c, outcome) ==
    /\ c \in DOMAIN calls
    /\ c \in Callers
    /\ Commit(Finish(World, calls[c], outcome))
    /\ calls' = Without(calls, c)
    /\ ev' = Ev(IF calls[c].op = "on" THEN "turn_on" ELSE "turn_off", calls[c].dev,
                outcome, IF outcome = "success" THEN "done" ELSE "failed",
                calls[c], "no")
    /\ UNCHANGED <<now, exec, next_id, ncalls, last_on_done, stats, sweep>>
    /\ UNCHANGED <<schedVars, storeVars, timedVars, overlapVars>>

\* a direct call of schedule_off(device_id, after_minutes)
DirectScheduleOff(d, after_minutes) ==
    /\ ncalls < MaxCalls
    /\ ncalls' = ncalls + 1
    /\ Commit(ScheduleOff(World, d, after_minutes, "schedule_off"))
    /\ ev' = Ev("schedule_off", d, "none", "done", NoCall, "no")
    /\ UNCHANGED <<now, calls, exec, next_id, last_on_done, stats, sweep>>
    /\ UNCHANGED <<schedVars, storeVars, timedVars, overlapVars>>

\* _delayed_off after its sleep: turn_off(device_id, "scheduled_auto_off") run
\* inside the task.  turn_off first cancels the registered task; when that is
\* the running task itself, the cancellation is delivered at its next
\* suspension: if the transport suspends the caller (susp) the task ends there
\* with CancelledError, otherwise turn_off runs to its end.
DelayedOff(id, susp, outcome) ==
    /\ id \in DOMAIN tasks
    /\ now >= tasks[id].due
    /\ LET d    == tasks[id].dev
           self == d \in DOMAIN scheduled_off_tasks /\ scheduled_off_tasks[d] = id
           b    == TurnOffBegin(World, d, "scheduled_auto_off")
           W1   == [b.W EXCEPT !.tasks = Without(b.W.tasks, id)]
       IN IF self /\ susp
          THEN /\ Commit(W1)
               /\ ev' = Ev("auto_off", d, outcome, "cancelled", b.call, tasks[id].stale)
          ELSE /\ Commit(Finish(W1, b.call, outcome))
               /\ ev' = Ev("auto_off", d, outcome,
                           IF outcome = "success" THEN "done" ELSE "failed",
                           b.call, tasks[id].stale)
    /\ UNCHANGED <<now, calls, exec, next_id, ncalls, last_on_done, stats, sweep>>
    /\ UNCHANGED <<schedVars, storeVars, timedVars, overlapVars>>

\* the auto-offs of every device in S, cancelled one device after the other
RECURSIVE CancelEach(_, _)
CancelEach(W, S) ==
    IF S = {} THEN W
    ELSE LET d == CHOOSE x \in S : TRUE
         IN CancelEach(CancelScheduledOff(W, d), S \ {d})

ShutdownControllerOneDevice(W) ==
    IF DOMAIN W.scheduled_off_tasks = {} THEN W
    ELSE CancelScheduledOff(W, CHOOSE x \in DOMAIN W.scheduled_off_tasks : TRUE)

\* RelayController.shutdown: _cancel_scheduled_off for every registered device
ShutdownController(W) == CancelEach(W, DOMAIN W.scheduled_off_tasks)

\* shutdown() is called; triggered: the devices that had an auto-off registered
Shutdown ==
    /\ Commit(ShutdownController(World))
    /\ ev' = [Ev("shutdown", NoDevice, "none", "done", NoCall, "no")
                 EXCEPT !.triggered = CHOOSE o \in Orders(DOMAIN scheduled_off_tasks) : TRUE]
    /\ UNCHANGED <<now, calls, exec, next_id, ncalls, last_on_done, stats, sweep>>
    /\ UNCHANGED <<schedVars, storeVars, timedVars, overlapVars>>

\* what a decision of the decision source can ask for
Decisions ==
    {<<"pump_on", "pump_01", NULL>>, <<"pump_on", "pump_01", LongDuration>>,
     <<"pump_off", "pump_01", NULL>>,
     <<"fan_on", "fan_01", 1>>, <<"fan_off", "fan_01", NULL>>,
     <<"fan_on", UnknownDevice, NULL>>, <<"valve_on", "pump_01", NULL>>,
     <<"pump_on", NoDevice, NULL>>}

IdleExec == [pc |-> "idle", snap |-> <<>>, idx |-> 0, results |-> <<>>, gap |-> NULL]

\* core/brain.py _process_decision: append a pending action to the queue
Enqueue(action, device, duration_minutes) ==
    /\ action # "none"
    /\ next_id < MaxActions
    /\ next_id' = next_id + 1
    /\ pending_actions' = Append(pending_actions,
            [id |-> next_id + 1, action |-> action, device |-> device,
             duration_minutes |-> duration_minutes, retry_count |-> 0,
             status |-> "pending"])
    /\ ev' = Ev("enqueue", device, "none", "none", NoCall, "no")
    /\ UNCHANGED <<now, devices, last_downlink, scheduled_off_tasks, tasks, calls,
                   exec, ncalls, last_on_done, stats, sweep>>
    /\ UNCHANGED <<schedVars, storeVars, timedVars, overlapVars>>

\* the pass has run up to its next suspension, or to its end; old: the results
\* it had returned before this run
PassRuns(run, snap, old) ==
    /\ Commit(run.W)
    /\ LET st == UpdateStats(stats, SubSeq(run.results, Len(old) + 1, Len(run.results)))
       IN stats' = IF run.pc = "idle" /\ ~ run.aborted THEN EndOfPass(st, snap) ELSE st
    /\ IF run.pc = "await"
       THEN /\ exec' = [pc |-> "await", snap |-> snap, idx |-> run.idx,
                        results |-> run.results, gap |-> run.gap]
            /\ calls' = With(calls, "exec", run.call)
            /\ ev' = [Ev("pass_await", run.call.dev, "none", "await", run.call, "no")
                         EXCEPT !.results = run.results]
       ELSE /\ exec' = IdleExec
            /\ calls' = Without(calls, "exec")
            /\ ev' = [Ev(IF run.aborted THEN "pass_abort" ELSE "pass_end", NoDevice,
                         "none", "done", NoCall, "no")
                         EXCEPT !.results = run.results]

\* process_pending_actions is called: it reads the queue and processes the
\* entries it read, one after the other
ProcessPendingActions ==
    /\ exec.pc = "idle"
    /\ stats.total_processed + Len(pending_actions) <= MaxProcessed
    /\ PassRuns(RunPass(World, last_on_done, pending_actions, 1, <<>>), pending_actions,
                <<>>)
    /\ UNCHANGED <<now, next_id, ncalls, last_on_done, sweep>>
    /\ UNCHANGED <<schedVars, storeVars, timedVars, overlapVars>>

\* send_relay_command answers the executor's turn_on / turn_off; the pass
\* finishes this action and goes on with the rest of its snapshot
ExecTransportAnswer(outcome) ==
    /\ exec.pc = "await"
    /\ LET a   == exec.snap[exec.idx]
           c   == calls["exec"]
           r   == ProcessSingleResume(World, a, c, outcome, exec.gap)
           lod == IF c.op = "on" /\ outcome = "success"
                  THEN With(last_on_done, c.dev, now) ELSE last_on_done
       IN /\ last_on_done' = lod
          /\ PassRuns(RunPass(r.W, lod, exec.snap, exec.idx + 1,
                              Append(exec.results, r.result)), exec.snap, exec.results)
    /\ UNCHANGED <<now, next_id, ncalls, sweep>>
    /\ UNCHANGED <<schedVars, storeVars, timedVars, overlapVars>>

\* ------------------------------------------------------- overlapping passes
\* process_pending_actions is the callback of a scheduler task: the task's loop
\* runs one invocation after the other, and run_task_once runs one more next to
\* it whenever it is called.  Each invocation has its own snapshot of the queue
\* and is suspended at the transport on its own.
Passes == {"loop", "once"}

OverlapDecisions ==
    {<<"pump_on", "pump_01", NULL>>, <<"pump_off", "pump_01", NULL>>,
     <<"fan_on", "fan_01", 1>>}

OverlapInit ==
    /\ passes = [p \in Passes |-> IdleExec]
    /\ applied = <<>>

\* the invocation p has run up to its next suspension, or to its end
OverlapRuns(p, run, snap, old) ==
    /\ Commit(run.W)
    /\ LET st == UpdateStats(stats, SubSeq(run.results, Len(old) + 1, Len(run.results)))
       IN stats' = IF run.pc = "idle" /\ ~ run.aborted THEN EndOfPass(st, snap) ELSE st
    /\ IF run.pc = "await"
       THEN /\ passes' = [passes EXCEPT ![p] = [pc |-> "await", snap |-> snap,
                                                idx |-> run.idx, results |-> run.results,
                                                gap |-> run.gap]]
            /\ calls' = With(calls, p, run.call)
            /\ ev' = [Ev("pass_await", run.call.dev, "none", "await", run.call, "no")
                         EXCEPT !.results = run.results]
       ELSE /\ passes' = [passes EXCEPT ![p] = IdleExec]
            /\ calls' = Without(calls, p)
            /\ ev' = [Ev(IF run.aborted THEN "pass_abort" ELSE "pass_end", NoDevice,
                         "none", "done", NoCall, "no")
                         EXCEPT !.results = run.results]

\* _execute_task calls process_pending_actions, from the task's loop (p =
\* "loop") or from run_task_once (p = "once")
OverlapBegin(p) ==
    /\ passes[p].pc = "idle"
    /\ stats.total_processed + Len(pending_actions) <= MaxProcessed
    /\ OverlapRuns(p, RunPass(World, last_on_done, pending_actions, 1, <<>>),
                   pending_actions, <<>>)
    /\ UNCHANGED <<now, exec, next_id, ncalls, last_on_done, sweep, applied>>
    /\ UNCHANGED <<schedVars, storeVars, timedVars>>

\* send_relay_command answers the turn_on / turn_off of the invocation p
OverlapTransportAnswer(p, outcome) ==
    /\ passes[p].pc = "await"
    /\ LET a   == passes[p].snap[passes[p].idx]
           c   == calls[p]
           r   == ProcessSingleResume(World, a, c, outcome, passes[p].gap)
           lod == IF c.op = "on" /\ outcome = "success"
                  THEN With(last_on_done, c.dev, now) ELSE last_on_done
       IN /\ last_on_done' = lod
          /\ applied' = IF outcome = "success"
                         THEN Append(applied, [id |-> a.id, device |-> a.device])
                         ELSE applied
          /\ OverlapRuns(p, RunPass(r.W, lod, passes[p].snap, passes[p].idx + 1,
                                    Append(passes[p].results, r.result)),
                         passes[p].snap, passes[p].results)
    /\ UNCHANGED <<now, exec, next_id, ncalls, sweep>>
    /\ UNCHANGED <<schedVars, storeVars, timedVars>>

IdleSweep == [pc |-> "idle", snap |-> Empty, at |-> NULL, todo |-> <<>>,
              triggered |-> <<>>]

\* the sweep has run up to its next suspension, or to its end
SweepRuns(run, snap, at) ==
    /\ Commit(run.W)
    /\ IF run.pc = "await"
       THEN /\ sweep' = [pc |-> "await", snap |-> snap, at |-> at, todo |-> run.todo,
                         triggered |-> run.triggered]
            /\ calls' = With(calls, "sweep", run.call)
            /\ ev' = [Ev("sweep_await", run.call.dev, "none", "await", run.call, "no")
                         EXCEPT !.triggered = run.triggered]
       ELSE /\ sweep' = IdleSweep
            /\ calls' = Without(calls, "sweep")
            /\ ev' = [Ev("sweep_end", NoDevice, "none", "done", NoCall, "no")
                         EXCEPT !.triggered = run.triggered]

\* check_scheduled_shutoffs is called: it reads the device entries and the
\* clock once, and goes through the entries in the order of the store
CheckScheduledShutoffs(order) ==
    /\ sweep.pc = "idle"
    /\ SweepRuns(RunSweep(World, devices, now, order, <<>>), devices, now)
    /\ UNCHANGED <<now, exec, next_id, ncalls, last_on_done, stats>>
    /\ UNCHANGED <<schedVars, storeVars, timedVars, overlapVars>>

\* send_relay_command answers the sweep's turn_off; the device is reported as
\* triggered whatever the answer, and the sweep goes on with the next entry
SweepTransportAnswer(outcome) ==
    /\ sweep.pc = "await"
    /\ SweepRuns(RunSweep(Finish(World, calls["sweep"], outcome), sweep.snap, sweep.at,
                          Tail(sweep.todo),
                          Append(sweep.triggered, Head(sweep.todo))),
                 sweep.snap, sweep.at)
    /\ UNCHANGED <<now, exec, next_id, ncalls, last_on_done, stats>>
    /\ UNCHANGED <<schedVars, storeVars, timedVars, overlapVars>>

\* -------------------------------------------------------------- state store
\* utils/state_manager.py.  A document is a JSON object of scalar values, a
\* function from its keys to numbers; on such documents the deep merge and
\* the shallow merge of update() are the same assignment of keys.  The
\* callers of one StateManager are threads: read, write and update are
\* synchronous and take a threading.Lock per state name.
StateNames == {"device_states"}
Keys == {"mode", "pending"}
Vals == {0, 1}
Threads == 1 .. MaxThreads
NoThread == 0

\* state/templates/<name>.json, copied by _initialize_from_templates
Template == [k \in Keys |-> 0]

\* the updates argument of update(): a non-empty part of a document
UpdateArgs == UNION {[K -> Vals] : K \in (SUBSET Keys) \ {{}}}

\* the data argument of write(): a whole document
WriteArgs == [Keys -> Vals]

IdleCall == [pc |-> "idle", op |-> "none", name |-> "", arg |-> Empty, state |-> Empty]

StoreInit ==
    /\ state_files = [n \in StateNames |-> Template]
    /\ state_locks = Empty
    /\ state_cache = Empty
    /\ store_calls = [t \in Threads |-> IdleCall]

\* _deep_merge on documents of scalars (state_manager.py 149-155)
DeepMerge(base, updates) ==
    [k \in (DOMAIN base) \cup (DOMAIN updates) |->
        IF k \in DOMAIN updates THEN updates[k] ELSE base[k]]

\* update() between its read and its write (state_manager.py 137-144)
Merged(state, updates, t) == With(DeepMerge(state, updates), "timestamp", t)

\* _get_lock (state_manager.py 52-56): the lock of a name is made on first use
GetLock(L, n) == IF n \in DOMAIN L THEN L ELSE With(L, n, NoThread)

\* update(state_name, updates) is called: it starts with self.read
CallUpdate(t, n, updates) ==
    /\ store_calls[t].pc = "idle"
    /\ store_calls' = [store_calls EXCEPT ![t] =
           [pc |-> "read", op |-> "update", name |-> n, arg |-> updates, state |-> Empty]]
    /\ UNCHANGED <<state_files, state_locks, state_cache>>
    /\ UNCHANGED <<engineVars, schedVars, timedVars, overlapVars>>

\* write(state_name, data) is called
CallWrite(t, n, data) ==
    /\ store_calls[t].pc = "idle"
    /\ store_calls' = [store_calls EXCEPT ![t] =
           [pc |-> "write", op |-> "write", name |-> n, arg |-> data, state |-> data]]
    /\ UNCHANGED <<state_files, state_locks, state_cache>>
    /\ UNCHANGED <<engineVars, schedVars, timedVars, overlapVars>>

\* read: `with self._get_lock(state_name):` is entered (state_manager.py 91)
ReadLock(t) ==
    LET c == store_calls[t]
        L == GetLock(state_locks, c.name) IN
    /\ c.pc = "read"
    /\ L[c.name] = NoThread
    /\ state_locks' = [L EXCEPT ![c.name] = t]
    /\ store_calls' = [store_calls EXCEPT ![t].pc = "reading"]
    /\ UNCHANGED <<state_files, state_cache>>
    /\ UNCHANGED <<engineVars, schedVars, timedVars, overlapVars>>

\* read: the file is loaded, the lock released and the cache set; update
\* then merges its updates into what it read and stamps it
\* (state_manager.py 100-104, 137-144)
ReadLoad(t) ==
    LET c == store_calls[t]
        state == state_files[c.name] IN
    /\ c.pc = "reading"
    /\ state_locks' = [state_locks EXCEPT ![c.name] = NoThread]
    /\ state_cache' = With(state_cache, c.name, state)
    /\ store_calls' = [store_calls EXCEPT ![t].pc = "write",
                                          ![t].state = Merged(state, c.arg, now)]
    /\ UNCHANGED state_files
    /\ UNCHANGED <<engineVars, schedVars, timedVars, overlapVars>>

\* write: `with self._get_lock(state_name):` is entered (state_manager.py 115)
WriteLock(t) ==
    LET c == store_calls[t]
        L == GetLock(state_locks, c.name) IN
    /\ c.pc = "write"
    /\ L[c.name] = NoThread
    /\ state_locks' = [L EXCEPT ![c.name] = t]
    /\ store_calls' = [store_calls EXCEPT ![t].pc = "writing"]
    /\ UNCHANGED <<state_files, state_cache>>
    /\ UNCHANGED <<engineVars, schedVars, timedVars, overlapVars>>

\* write: the document is dumped over the file, the lock released and the
\* cache set; write and update return (state_manager.py 116-120, 146-147)
WriteDump(t) ==
    LET c == store_calls[t] IN
    /\ c.pc = "writing"
    /\ state_files' = [state_files EXCEPT ![c.name] = c.state]
    /\ state_locks' = [state_locks EXCEPT ![c.name] = NoThread]
    /\ state_cache' = With(state_cache, c.name, c.state)
    /\ store_calls' = [store_calls EXCEPT ![t].pc = "done"]
    /\ UNCHANGED <<engineVars, schedVars, timedVars, overlapVars>>

\* ---------------------------------------------------------------- scheduler
\* The callbacks are coroutine functions that suspend once before they return
\* or raise (run_cycle, _update_weather).  A loop is the asyncio task of
\* _task_loop; it holds the ScheduledTask object it was created for.
TaskNames == {"t1", "t2"}

RunImmediatelyNever(n) == FALSE

\* add_task(..., run_immediately=...) as SeraBrain._setup_scheduled_tasks does
RunImmediately(n) == n = "t1"

CallbackOutcomes == {"returned", "raised"}

\* a ScheduledTask; disabled remembers that disable_task was called for it and
\* enable_task has not been since
NewTask(n, enabled) ==
    [name |-> n, enabled |-> enabled, run_immediately |-> RunImmediately(n),
     status |-> "pending", run_count |-> 0, success_count |-> 0, failure_count |-> 0,
     last_error |-> NULL, loop |-> NULL, disabled |-> FALSE]

\* a _task_loop coroutine; raised remembers that a callback it awaited raised
NewLoop(n, o) ==
    [name |-> n, obj |-> o, pc |-> "start", cancel |-> FALSE, raised |-> FALSE]

\* no stop() in progress; quiet and forced remember the last stop(): that it
\* has returned with no start() since it began, and that its timeout ended
IdleStopper ==
    [pc |-> "idle", running_tasks |-> {}, restarted |-> FALSE, quiet |-> FALSE,
     forced |-> FALSE]

\* the caller of _execute_task when it is run_task_once and not a loop
ByManual == 0

\* what _execute_task returns
ExecuteResult(outcome) == IF outcome = "returned" THEN "result" ELSE NULL

SEv(kind, name, obj, by, outcome) ==
    [kind |-> kind, name |-> name, obj |-> obj, by |-> by, outcome |-> outcome,
     result |-> IF kind = "exec_end" THEN ExecuteResult(outcome) ELSE NULL]

SchedInit ==
    /\ sched_tasks = Empty
    /\ task_objs = Empty
    /\ loops = Empty
    /\ manual = Empty
    /\ is_running = FALSE
    /\ stop_event = FALSE
    /\ stopper = IdleStopper
    /\ made = 0
    /\ sev = SEv("init", "", NULL, NULL, "none")

\* task._task and not task._task.done()
LoopAlive(L, l) == l # NULL /\ l \in DOMAIN L

\* task._task.cancel(): the CancelledError is raised in the loop when it runs next
CancelLoop(L, l) == IF LoopAlive(L, l) THEN [L EXCEPT ![l].cancel = TRUE] ELSE L

\* the k-th identity that nothing in S has
NthFree(S, k) ==
    CHOOSE i \in 1..(Cardinality(S) + k) :
        i \notin S /\ Cardinality({j \in 1..i : j \notin S}) = k

\* the objects something still refers to; a task._task that is done is the
\* same to the scheduler as none
Referenced(N, O, L, M) ==
    [o \in {x \in DOMAIN O : \/ \E n \in DOMAIN N : N[n] = x
                             \/ \E l \in DOMAIN L : L[l].obj = x
                             \/ \E m \in DOMAIN M : M[m].obj = x} |->
        IF LoopAlive(L, O[o].loop) THEN O[o] ELSE [O[o] EXCEPT !.loop = NULL]]

\* the identity of a new loop: one that no loop has and stop() does not wait for
NewLoopId(k) == NthFree(DOMAIN loops \cup stopper.running_tasks, k)

SchedCommit(N, O, L, M) ==
    /\ sched_tasks' = N
    /\ loops' = L
    /\ manual' = M
    /\ task_objs' = Referenced(N, O, L, M)

BeginExecuteUncounted(rec) == [rec EXCEPT !.status = "running"]

\* _execute_task up to the await of the callback
BeginExecute(rec) == [rec EXCEPT !.status = "running", !.run_count = @ + 1]

RecordOutcomeCountsBoth(rec, outcome) ==
    [rec EXCEPT !.success_count = @ + 1, !.failure_count = @ + 1, !.status = "completed"]

RecordOutcomeLosesFailure(rec, outcome) ==
    IF outcome = "returned"
    THEN [rec EXCEPT !.success_count = @ + 1, !.status = "completed"]
    ELSE [rec EXCEPT !.status = "completed"]

\* _execute_task from the return of the callback on
RecordOutcome(rec, outcome) ==
    IF outcome = "returned"
    THEN [rec EXCEPT !.success_count = @ + 1, !.status = "completed"]
    ELSE [rec EXCEPT !.failure_count = @ + 1, !.last_error = 1, !.status = "failed"]

\* the condition of the while loop of _task_loop
KeepsLooping(rec) == ~ stop_event /\ rec.enabled

\* the loop goes back to the head of its while loop: it waits for the stop
\* event or the interval, or it is done
NextRound(L, l, rec) ==
    IF KeepsLooping(rec) THEN [L EXCEPT ![l].pc = "wait"] ELSE Without(L, l)

\* _stop_event.set() wakes every loop that waits in wait_for(_stop_event.wait())
SignalWaiters(L) ==
    [l \in DOMAIN L |-> IF L[l].pc = "wait" THEN [L[l] EXCEPT !.pc = "signalled"]
                        ELSE L[l]]

RunningTasksNone(N, O, L) == {}

\* the running_tasks stop() collects
RunningTasks(N, O, L) == {O[N[n]].loop : n \in DOMAIN N} \cap DOMAIN L

\* the callback executions in progress for an object: those of loops that
\* have not been cancelled, and those of run_task_once
InFlightLoops(L, o) == {l \in DOMAIN L : L[l].obj = o /\ L[l].pc = "exec" /\ ~ L[l].cancel}
InFlightManual(M, o) == {m \in DOMAIN M : M[m].obj = o}
LoopRuns(o) == InFlightLoops(loops, o)
ManualRuns(o) == InFlightManual(manual, o)

\* ------------------------------------------------------- scheduler actions
IsRegisteredNever(N, n) == FALSE

\* name in self.tasks
IsRegistered(N, n) == n \in DOMAIN N

\* add_task(name, callback, interval, run_immediately, enabled)
AddTask(n, enabled) ==
    /\ made < MaxOps
    /\ IF IsRegistered(sched_tasks, n)
       THEN /\ UNCHANGED <<sched_tasks, task_objs, loops, manual>>
            /\ sev' = SEv("add", n, sched_tasks[n], NULL, "false")
       ELSE LET o == NthFree(DOMAIN task_objs, 1)
                l == NewLoopId(1)
                starts == is_running /\ enabled
                rec == [NewTask(n, enabled) EXCEPT !.loop = IF starts THEN l ELSE NULL]
            IN /\ SchedCommit(With(sched_tasks, n, o), With(task_objs, o, rec),
                              IF starts THEN With(loops, l, NewLoop(n, o)) ELSE loops,
                              manual)
               /\ sev' = SEv("add", n, o, NULL, "true")
    /\ UNCHANGED <<is_running, stop_event, stopper>>
    /\ made' = made + 1
    /\ UNCHANGED <<engineVars, storeVars, timedVars, overlapVars>>

\* remove_task(name)
RemoveTask(n) ==
    /\ made < MaxOps
    /\ IF ~ IsRegistered(sched_tasks, n)
       THEN /\ UNCHANGED <<sched_tasks, task_objs, loops, manual>>
            /\ sev' = SEv("remove", n, NULL, NULL, "false")
       ELSE LET o == sched_tasks[n]
            IN /\ SchedCommit(Without(sched_tasks, n), task_objs,
                              CancelLoop(loops, task_objs[o].loop), manual)
               /\ sev' = SEv("remove", n, o, NULL, "true")
    /\ UNCHANGED <<is_running, stop_event, stopper>>
    /\ made' = made + 1
    /\ UNCHANGED <<engineVars, storeVars, timedVars, overlapVars>>

\* enable_task(name) of a task that is not enabled
EnableTask(n) ==
    /\ n \in DOMAIN sched_tasks
    /\ ~ task_objs[sched_tasks[n]].enabled
    /\ made < MaxOps
    /\ LET o == sched_tasks[n]
           l == NewLoopId(1)
           rec == [task_objs[o] EXCEPT !.enabled = TRUE, !.disabled = FALSE,
                                       !.loop = IF is_running THEN l ELSE @]
       IN /\ SchedCommit(sched_tasks, [task_objs EXCEPT ![o] = rec],
                         IF is_running THEN With(loops, l, NewLoop(n, o)) ELSE loops,
                         manual)
          /\ sev' = SEv("enable", n, o, NULL, "none")
    /\ UNCHANGED <<is_running, stop_event, stopper>>
    /\ made' = made + 1
    /\ UNCHANGED <<engineVars, storeVars, timedVars, overlapVars>>

\* disable_task(name)
DisableTask(n) ==
    /\ n \in DOMAIN sched_tasks
    /\ made < MaxOps
    /\ LET o == sched_tasks[n]
           alive == LoopAlive(loops, task_objs[o].loop)
           rec == [task_objs[o] EXCEPT !.enabled = FALSE, !.disabled = TRUE,
                                       !.status = IF alive THEN "cancelled" ELSE @]
       IN /\ SchedCommit(sched_tasks, [task_objs EXCEPT ![o] = rec],
                         CancelLoop(loops, task_objs[o].loop), manual)
          /\ sev' = SEv("disable", n, o, NULL, "none")
    /\ UNCHANGED <<is_running, stop_event, stopper>>
    /\ made' = made + 1
    /\ UNCHANGED <<engineVars, storeVars, timedVars, overlapVars>>

\* run_task_once(name) up to the await of the callback, or to its return for
\* a name that is not registered
RunTaskOnce(n) ==
    /\ made < MaxOps
    /\ IF ~ IsRegistered(sched_tasks, n)
       THEN /\ UNCHANGED <<sched_tasks, task_objs, loops, manual>>
            /\ sev' = SEv("not_found", n, NULL, ByManual, "none")
       ELSE LET o == sched_tasks[n]
                m == NthFree(DOMAIN manual, 1)
            IN /\ SchedCommit(sched_tasks, [task_objs EXCEPT ![o] = BeginExecute(@)],
                              loops, With(manual, m, [name |-> n, obj |-> o]))
               /\ sev' = SEv("exec_begin", n, o, ByManual, "none")
    /\ UNCHANGED <<is_running, stop_event, stopper>>
    /\ made' = made + 1
    /\ UNCHANGED <<engineVars, storeVars, timedVars, overlapVars>>

\* the callback of a run_task_once call returns or raises
ManualReturns(m, outcome) ==
    /\ m \in DOMAIN manual
    /\ LET o == manual[m].obj
       IN /\ SchedCommit(sched_tasks, [task_objs EXCEPT ![o] = RecordOutcome(@, outcome)],
                         loops, Without(manual, m))
          /\ sev' = SEv("exec_end", manual[m].name, o, ByManual, outcome)
    /\ UNCHANGED <<is_running, stop_event, stopper>>
    /\ UNCHANGED made
    /\ UNCHANGED <<engineVars, storeVars, timedVars, overlapVars>>

\* the position of an enabled task among those start() creates a loop for
Rank(n, S) == Cardinality({x \in S : x = "t1" /\ n = "t2"}) + 1

\* start() of a scheduler that is not running
Start ==
    /\ ~ is_running
    /\ made < MaxOps
    /\ LET S == {n \in DOMAIN sched_tasks : task_objs[sched_tasks[n]].enabled}
           id(n) == NewLoopId(Rank(n, S))
           ids == {id(n) : n \in S}
           name(l) == CHOOSE n \in S : id(n) = l
       IN SchedCommit(sched_tasks,
                         [o \in DOMAIN task_objs |->
                             IF task_objs[o].name \in S /\ sched_tasks[task_objs[o].name] = o
                             THEN [task_objs[o] EXCEPT !.loop = id(task_objs[o].name)]
                             ELSE task_objs[o]],
                         [l \in DOMAIN loops \cup ids |->
                             IF l \in ids THEN NewLoop(name(l), sched_tasks[name(l)])
                             ELSE loops[l]],
                         manual)
    /\ stop_event' = FALSE
    /\ is_running' = TRUE
    /\ stopper' = [stopper EXCEPT !.restarted = (stopper.pc # "idle"), !.quiet = FALSE,
                                  !.forced = FALSE]
    /\ sev' = SEv("start", "", NULL, NULL, "none")
    /\ made' = made + 1
    /\ UNCHANGED <<engineVars, storeVars, timedVars, overlapVars>>

\* stop(timeout) of a running scheduler, up to its await of the loops or, when
\* no loop is alive, to its return
StopBegin ==
    /\ is_running
    /\ stopper.pc = "idle"
    /\ made < MaxOps
    /\ stop_event' = TRUE
    /\ is_running' = FALSE
    /\ SchedCommit(sched_tasks, task_objs, SignalWaiters(loops), manual)
    /\ LET running == RunningTasks(sched_tasks, task_objs, loops)
       IN IF running = {}
          THEN /\ stopper' = [IdleStopper EXCEPT !.quiet = TRUE]
               /\ sev' = SEv("stop_return", "", NULL, NULL, "none")
          ELSE /\ stopper' = [IdleStopper EXCEPT !.pc = "waiting",
                                                 !.running_tasks = running]
               /\ sev' = SEv("stop_begin", "", NULL, NULL, "none")
    /\ made' = made + 1
    /\ UNCHANGED <<engineVars, storeVars, timedVars, overlapVars>>

\* the timeout of stop() ends while a loop it waits for is alive: every loop
\* it waits for is cancelled
StopTimeout ==
    /\ stopper.pc = "waiting"
    /\ stopper.running_tasks \cap DOMAIN loops # {}
    /\ SchedCommit(sched_tasks, task_objs,
                   [l \in DOMAIN loops |->
                       IF l \in stopper.running_tasks THEN [loops[l] EXCEPT !.cancel = TRUE]
                       ELSE loops[l]],
                   manual)
    /\ stopper' = [stopper EXCEPT !.pc = "cancelling"]
    /\ sev' = SEv("stop_timeout", "", NULL, NULL, "none")
    /\ UNCHANGED <<is_running, stop_event>>
    /\ UNCHANGED made
    /\ UNCHANGED <<engineVars, storeVars, timedVars, overlapVars>>

\* every loop stop() waits for is done: stop() returns
StopReturn ==
    /\ stopper.pc # "idle"
    /\ stopper.running_tasks \cap DOMAIN loops = {}
    /\ stopper' = [IdleStopper EXCEPT !.quiet = ~ stopper.restarted,
                                      !.forced = (stopper.pc = "cancelling")]
    /\ sev' = SEv("stop_return", "", NULL, NULL, "none")
    /\ UNCHANGED <<sched_tasks, task_objs, loops, manual, is_running, stop_event>>
    /\ UNCHANGED made
    /\ UNCHANGED <<engineVars, storeVars, timedVars, overlapVars>>

\* the first run of a loop: the callback at once when run_immediately, then
\* the while loop
LoopFirstStep(l) ==
    /\ l \in DOMAIN loops
    /\ loops[l].pc = "start" /\ ~ loops[l].cancel
    /\ LET o == loops[l].obj
       IN IF task_objs[o].run_immediately
          THEN /\ made < MaxOps
               /\ SchedCommit(sched_tasks, [task_objs EXCEPT ![o] = BeginExecute(@)],
                              [loops EXCEPT ![l].pc = "exec"], manual)
               /\ sev' = SEv("exec_begin", loops[l].name, o, l, "none")
               /\ made' = made + 1
          ELSE /\ SchedCommit(sched_tasks, task_objs, NextRound(loops, l, task_objs[o]),
                              manual)
               /\ sev' = SEv("loop_step", loops[l].name, o, l, "none")
               /\ made' = made
    /\ UNCHANGED <<is_running, stop_event, stopper>>
    /\ UNCHANGED <<engineVars, storeVars, timedVars, overlapVars>>

\* the interval of a waiting loop ends: the callback when the task is enabled
\* and the scheduler not stopped, then the while loop again
LoopTimeout(l) ==
    /\ l \in DOMAIN loops
    /\ loops[l].pc = "wait" /\ ~ loops[l].cancel
    /\ LET o == loops[l].obj
       IN IF task_objs[o].enabled /\ ~ stop_event
          THEN /\ made < MaxOps
               /\ SchedCommit(sched_tasks, [task_objs EXCEPT ![o] = BeginExecute(@)],
                              [loops EXCEPT ![l].pc = "exec"], manual)
               /\ sev' = SEv("exec_begin", loops[l].name, o, l, "none")
               /\ made' = made + 1
          ELSE /\ SchedCommit(sched_tasks, task_objs, NextRound(loops, l, task_objs[o]),
                              manual)
               /\ sev' = SEv("loop_step", loops[l].name, o, l, "none")
               /\ made' = made
    /\ UNCHANGED <<is_running, stop_event, stopper>>
    /\ UNCHANGED <<engineVars, storeVars, timedVars, overlapVars>>

\* a loop woken by the stop event leaves its while loop
LoopStopSignal(l) ==
    /\ l \in DOMAIN loops
    /\ loops[l].pc = "signalled" /\ ~ loops[l].cancel
    /\ SchedCommit(sched_tasks, task_objs, Without(loops, l), manual)
    /\ sev' = SEv("loop_exit", loops[l].name, loops[l].obj, l, "none")
    /\ UNCHANGED <<is_running, stop_event, stopper>>
    /\ UNCHANGED made
    /\ UNCHANGED <<engineVars, storeVars, timedVars, overlapVars>>

\* the callback a loop executes returns or raises; the loop goes on
LoopCallbackReturns(l, outcome) ==
    /\ l \in DOMAIN loops
    /\ loops[l].pc = "exec" /\ ~ loops[l].cancel
    /\ LET o == loops[l].obj
           rec == RecordOutcome(task_objs[o], outcome)
           L == [loops EXCEPT ![l].raised = @ \/ outcome = "raised"]
       IN /\ SchedCommit(sched_tasks, [task_objs EXCEPT ![o] = rec],
                         NextRound(L, l, rec), manual)
          /\ sev' = SEv("exec_end", loops[l].name, o, l, outcome)
    /\ UNCHANGED <<is_running, stop_event, stopper>>
    /\ UNCHANGED made
    /\ UNCHANGED <<engineVars, storeVars, timedVars, overlapVars>>

\* a cancelled loop runs: CancelledError ends the callback it executes and the
\* loop; a loop cancelled before its first run never runs
DeliverCancel(l) ==
    /\ l \in DOMAIN loops
    /\ loops[l].cancel
    /\ LET o == loops[l].obj
       IN /\ SchedCommit(sched_tasks,
                         IF loops[l].pc = "start" THEN task_objs
                         ELSE [task_objs EXCEPT ![o].status = "cancelled"],
                         Without(loops, l), manual)
          /\ sev' = SEv("cancelled", loops[l].name, o, l, "none")
    /\ UNCHANGED <<is_running, stop_event, stopper>>
    /\ UNCHANGED made
    /\ UNCHANGED <<engineVars, storeVars, timedVars, overlapVars>>

\* ------------------------------------------------------ scheduler with time
\* _task_loop against the clock of the event loop.  Time is counted in half
\* intervals.  wait_for(_stop_event.wait(), timeout=interval) ends one interval
\* after it was called, and a loop that can run does so before time passes; a
\* callback returns after any time, none included.
IntervalTicks == 2

\* the tasks registered before start(): name -> enabled
TimedEnabled == [t1 |-> TRUE, t2 |-> TRUE, t3 |-> FALSE]

\* timed_started after stop(); one start() and one stop() are followed
Stopped == -2
TimedRunning == timed_started \notin {NULL, Stopped}

\* busy: the time the loop has spent in its callback (observation only)
TimedLoop(pc, due, busy) == [pc |-> pc, due |-> due, busy |-> busy]

TimedInit ==
    /\ clock = 0
    /\ timed_tasks = [n \in DOMAIN TimedEnabled |-> NewTask(n, TimedEnabled[n])]
    /\ timed_loops = Empty
    /\ timed_started = NULL

\* start(): a loop for every enabled task (scheduler.py 288-294)
TimedStart ==
    /\ timed_started = NULL /\ timed_loops = Empty
    /\ timed_started' = clock
    /\ timed_loops' = [n \in {x \in DOMAIN timed_tasks : timed_tasks[x].enabled} |->
                          TimedLoop("start", NULL, 0)]
    /\ UNCHANGED <<clock, timed_tasks>>
    /\ UNCHANGED <<engineVars, schedVars, storeVars, overlapVars>>

\* the head of the while loop of _task_loop: the loop waits one interval from
\* now, or it is done (scheduler.py 262-268)
TimedNextRound(L, n, rec, running) ==
    IF running /\ rec.enabled
    THEN [L EXCEPT ![n] = TimedLoop("wait", clock + IntervalTicks, L[n].busy)]
    ELSE [L EXCEPT ![n].pc = "done"]

\* the first run of a loop (scheduler.py 259-262)
TimedLoopFirstStep(n) ==
    /\ n \in DOMAIN timed_loops /\ timed_loops[n].pc = "start"
    /\ IF timed_tasks[n].run_immediately
       THEN /\ timed_tasks' = [timed_tasks EXCEPT ![n] = BeginExecute(@)]
            /\ timed_loops' = [timed_loops EXCEPT ![n].pc = "exec"]
       ELSE /\ timed_loops' = TimedNextRound(timed_loops, n, timed_tasks[n],
                                             TimedRunning)
            /\ UNCHANGED timed_tasks
    /\ UNCHANGED <<clock, timed_started>>
    /\ UNCHANGED <<engineVars, schedVars, storeVars, overlapVars>>

\* the interval of a waiting loop has elapsed (scheduler.py 271-276)
TimedLoopTimeout(n) ==
    /\ n \in DOMAIN timed_loops /\ timed_loops[n].pc = "wait"
    /\ timed_loops[n].due = clock
    /\ timed_tasks' = [timed_tasks EXCEPT ![n] = BeginExecute(@)]
    /\ timed_loops' = [timed_loops EXCEPT ![n].pc = "exec"]
    /\ UNCHANGED <<clock, timed_started>>
    /\ UNCHANGED <<engineVars, schedVars, storeVars, overlapVars>>

\* the callback returns or raises; the loop goes on (scheduler.py 226-248)
TimedCallbackReturns(n, outcome) ==
    /\ n \in DOMAIN timed_loops /\ timed_loops[n].pc = "exec"
    /\ LET rec == RecordOutcome(timed_tasks[n], outcome)
       IN /\ timed_tasks' = [timed_tasks EXCEPT ![n] = rec]
          /\ timed_loops' = TimedNextRound(timed_loops, n, rec, TimedRunning)
    /\ UNCHANGED <<clock, timed_started>>
    /\ UNCHANGED <<engineVars, schedVars, storeVars, overlapVars>>

\* stop(): the stop signal ends every loop that waits (scheduler.py 308-309,
\* 265-270); it returns when the loops are done
TimedStop ==
    /\ TimedRunning
    /\ timed_started' = Stopped
    /\ timed_loops' = [n \in {x \in DOMAIN timed_loops : timed_loops[x].pc = "exec"} |->
                          timed_loops[n]]
    /\ UNCHANGED <<clock, timed_tasks>>
    /\ UNCHANGED <<engineVars, schedVars, storeVars, overlapVars>>

\* no loop can run at this time
Settled ==
    \A n \in DOMAIN timed_loops :
        /\ timed_loops[n].pc # "start"
        /\ timed_loops[n].pc = "wait" => timed_loops[n].due > clock

\* half an interval passes
TimedTick ==
    /\ clock < MaxClock
    /\ Settled
    /\ clock' = clock + 1
    /\ timed_loops' = [n \in {x \in DOMAIN timed_loops : timed_loops[x].pc # "done"} |->
                          IF timed_loops[n].pc = "exec"
                          THEN [timed_loops[n] EXCEPT !.busy = @ + 1]
                          ELSE timed_loops[n]]
    /\ UNCHANGED <<timed_tasks, timed_started>>
    /\ UNCHANGED <<engineVars, schedVars, storeVars, overlapVars>>

NextSched ==
    \/ \E n \in TaskNames, en \in BOOLEAN : AddTask(n, en)
    \/ \E n \in TaskNames : RemoveTask(n)
    \/ \E n \in TaskNames : EnableTask(n)
    \/ \E n \in TaskNames : DisableTask(n)
    \/ \E n \in TaskNames : RunTaskOnce(n)
    \/ \E m \in DOMAIN manual, o \in CallbackOutcomes : ManualReturns(m, o)
    \/ Start
    \/ StopBegin
    \/ StopTimeout
    \/ StopReturn
    \/ \E l \in DOMAIN loops : LoopFirstStep(l)
    \/ \E l \in DOMAIN loops : LoopTimeout(l)
    \/ \E l \in DOMAIN loops : LoopStopSignal(l)
    \/ \E l \in DOMAIN loops, o \in CallbackOutcomes : LoopCallbackReturns(l, o)
    \/ \E l \in DOMAIN loops : DeliverCancel(l)

Init ==
    /\ now = 0
    /\ devices = Empty
    /\ pending_actions = <<>>
    /\ last_downlink = NULL
    /\ scheduled_off_tasks = Empty
    /\ tasks = Empty
    /\ calls = Empty
    /\ exec = IdleExec
    /\ next_id = 0
    /\ ncalls = 0
    /\ last_on_done = Empty
    /\ ev = NoEv
    /\ stats = NoStats
    /\ sweep = IdleSweep
    /\ SchedInit
    /\ StoreInit
    /\ TimedInit
    /\ OverlapInit

Next ==
    \/ Tick
    \/ \E dec \in Decisions : Enqueue(dec[1], dec[2], dec[3])
    \/ ProcessPendingActions
    \/ \E o \in Outcomes : ExecTransportAnswer(o)
    \/ \E id \in TaskIds, susp \in BOOLEAN, o \in Outcomes : DelayedOff(id, susp, o)

Spec == Init /\ [][Next]_vars

NextRelay ==
    \/ Tick
    \/ \E c \in Callers, d \in Devices \cup {UnknownDevice}, m \in Durations :
          ManualTurnOn(c, d, m)
    \/ \E c \in Callers, d \in Devices \cup {UnknownDevice} : ManualTurnOff(c, d)
    \/ \E c \in Callers, o \in Outcomes : TransportAnswer(c, o)
    \/ \E d \in Devices, m \in Durations \ {NULL} : DirectScheduleOff(d, m)
    \/ \E id \in TaskIds, susp \in BOOLEAN, o \in Outcomes : DelayedOff(id, susp, o)

SpecRelay == Init /\ [][NextRelay]_vars

\* the relay controller with its callers, its auto-offs and its shutdown
NextShutdown ==
    \/ Tick
    \/ \E c \in Callers, d \in Devices, m \in Durations : ManualTurnOn(c, d, m)
    \/ \E c \in Callers, d \in Devices : ManualTurnOff(c, d)
    \/ \E c \in Callers, o \in Outcomes : TransportAnswer(c, o)
    \/ \E id \in TaskIds, susp \in BOOLEAN, o \in Outcomes : DelayedOff(id, susp, o)
    \/ Shutdown

SpecShutdown == Init /\ [][NextShutdown]_vars

\* The threads of the state store.
NextStore ==
    \/ Tick
    \/ \E t \in Threads, n \in StateNames, u \in UpdateArgs : CallUpdate(t, n, u)
    \/ \E t \in Threads, n \in StateNames, d \in WriteArgs : CallWrite(t, n, d)
    \/ \E t \in Threads : ReadLock(t)
    \/ \E t \in Threads : ReadLoad(t)
    \/ \E t \in Threads : WriteLock(t)
    \/ \E t \in Threads : WriteDump(t)

SpecStore == Init /\ [][NextStore]_vars

\* The scheduler against the clock.
NextTimed ==
    \/ TimedStart
    \/ TimedStop
    \/ TimedTick
    \/ \E n \in DOMAIN TimedEnabled : TimedLoopFirstStep(n)
    \/ \E n \in DOMAIN TimedEnabled : TimedLoopTimeout(n)
    \/ \E n \in DOMAIN TimedEnabled, o \in CallbackOutcomes : TimedCallbackReturns(n, o)

SpecTimed == Init /\ [][NextTimed]_vars

SpecSched == Init /\ [][NextSched]_vars

\* the event loop runs what is ready: the timeout of stop(), a cancelled loop,
\* the return of stop()
StopProgress == StopTimeout \/ StopReturn \/ \E l \in DOMAIN loops : DeliverCancel(l)

SpecSchedFair == SpecSched /\ WF_vars(StopProgress)

\* The executor on every kind of queue content.  A decision is queued as the
\* decision source found it in the JSON of the model's answer, unvalidated:
\* its kind can be null and its duration a string.  A "none" action is never
\* queued by the decision source; it is in the queue only when the store held
\* it at start (tests/test_executor.py test_process_none_action).
BatchDecisions ==
    {<<"pump_on", "pump_01", NULL>>, <<"fan_off", "fan_01", NULL>>,
     <<"valve_on", "pump_01", NULL>>, <<NotAString, "pump_01", NULL>>,
     <<NotAString, NoDevice, NULL>>, <<"pump_on", "pump_01", NotANumber>>}

FoundAction(id, action, device) ==
    [id |-> id, action |-> action, device |-> device, duration_minutes |-> NULL,
     retry_count |-> 0, status |-> "pending"]

FoundQueues ==
    {<<>>, <<FoundAction(1, "none", NoDevice)>>,
     <<FoundAction(1, "pump_on", "pump_01"), FoundAction(2, "none", "pump_01")>>}

InitBatch ==
    /\ now = 0
    /\ devices = Empty
    /\ pending_actions \in FoundQueues
    /\ last_downlink = NULL
    /\ scheduled_off_tasks = Empty
    /\ tasks = Empty
    /\ calls = Empty
    /\ exec = IdleExec
    /\ next_id = Len(pending_actions)
    /\ ncalls = 0
    /\ last_on_done = Empty
    /\ ev = NoEv
    /\ stats = NoStats
    /\ sweep = IdleSweep
    /\ SchedInit
    /\ StoreInit
    /\ TimedInit
    /\ OverlapInit

NextBatch ==
    \/ Tick
    \/ \E dec \in BatchDecisions : Enqueue(dec[1], dec[2], dec[3])
    \/ ProcessPendingActions
    \/ \E o \in Outcomes : ExecTransportAnswer(o)

SpecBatch == InitBatch /\ [][NextBatch]_vars

\* The executor task with run_task_once next to its loop.
NextOverlap ==
    \/ Tick
    \/ \E dec \in OverlapDecisions : Enqueue(dec[1], dec[2], dec[3])
    \/ \E p \in Passes : OverlapBegin(p)
    \/ \E p \in Passes, o \in Outcomes : OverlapTransportAnswer(p, o)

SpecOverlap == Init /\ [][NextOverlap]_vars

\* The sweep of overdue devices next to direct commands and auto-offs.
NextSweep ==
    \/ Tick
    \/ \E c \in Callers, d \in Devices, m \in Durations : ManualTurnOn(c, d, m)
    \/ \E c \in Callers, o \in Outcomes : TransportAnswer(c, o)
    \/ \E order \in Orders(DOMAIN devices) : CheckScheduledShutoffs(order)
    \/ \E o \in Outcomes : SweepTransportAnswer(o)
    \/ \E id \in TaskIds, susp \in BOOLEAN, o \in Outcomes : DelayedOff(id, susp, o)

SpecSweep == Init /\ [][NextSweep]_vars

\* ---------------------------------------------------------- executor claims
\* the results returned so far by the pass that ran last
Results == {ev.results[i] : i \in 1..Len(ev.results)}

FailOutcomes == {"failure", "unknown_device"}

C2_OffNeverLimited ==
    /\ \A d \in Devices \cup {UnknownDevice}, k \in Kinds \ {"pump_on", "fan_on", "valve_on"} :
          CheckActionInterval(World, d, k)
    /\ \A r \in Results :
          r.action \in {"pump_off", "fan_off"}
             => (r.status # "skipped" /\ r.dispatched = "turn_off")

\* an OFF action handed to turn_off sooner after the device's last ON action
\* than the interval an ON action has to wait
C2_Witness ==
    \E r \in Results :
        /\ r.action \in {"pump_off", "fan_off"} /\ r.dispatched = "turn_off"
        /\ r.gap # NULL /\ r.gap < GetDeviceIntervalMinutes(r.device)

\* C3 as stated: a failure at retry_count = max_retries - 1 gives Failed and
\* removes the action; a failure below that keeps it queued, retry_count + 1,
\* status pending.
C3_FailsAtLastRetry ==
    \A r \in Results :
        r.outcome \in FailOutcomes
           => /\ r.rc = max_retries - 1 => (r.status = "failed" /\ ~ r.queued)
              /\ r.rc < max_retries - 1
                   => (r.queued /\ r.rc_after = r.rc + 1 /\ r.status_after = "pending")

\* C3 amended: a failure at retry_count = max_retries - 1 still keeps the
\* action queued, with retry_count = max_retries and status pending; only a
\* failure at retry_count = max_retries gives Failed and removes the action.
C3_RetryBoundary ==
    \A r \in Results :
        r.outcome \in FailOutcomes
           => /\ r.rc = max_retries - 1
                   => /\ r.status = "pending" /\ r.queued
                      /\ r.rc_after = max_retries /\ r.status_after = "pending"
              /\ r.rc = max_retries => (r.status = "failed" /\ ~ r.queued)

C3_Witness ==
    \E r \in Results :
        r.outcome \in FailOutcomes /\ r.rc = max_retries - 1 /\ r.queued

\* C4: when the Relay Controller reports failure and retry_count is below
\* max_retries the result is Pending and the action stays queued with
\* retry_count + 1 and status pending; when retry_count has reached
\* max_retries the result is Failed and the action is removed.
C4_RetryOrFail ==
    \A r \in Results :
        r.outcome \in FailOutcomes
           => /\ r.rc < max_retries
                   => /\ r.status = "pending" /\ r.queued
                      /\ r.rc_after = r.rc + 1 /\ r.status_after = "pending"
              /\ r.rc >= max_retries => (r.status = "failed" /\ ~ r.queued)

\* a transport failure of a queued action that had used up its retries
C4_Witness ==
    \E r \in Results :
        /\ r.outcome = "failure" /\ r.rc = max_retries
        /\ r.status = "failed"

\* C5: every action in the queue has retry_count <= max_retries.
C5_RetryBounded ==
    \A i \in 1..Len(pending_actions) : pending_actions[i].retry_count <= max_retries

C5_Witness ==
    \E i \in 1..Len(pending_actions) :
        pending_actions[i].retry_count = max_retries /\ pending_actions[i].status = "pending"

\* the ids of the entries of a queue, in order
Ids(q) == [i \in 1..Len(q) |-> q[i].id]

\* the queue a pass that made a step had read when it started
SnapshotOfPass == IF exec.pc = "idle" THEN pending_actions ELSE exec.snap

\* C11: a pass returns one result for each action that was in the queue when
\* it read it, and for no other; an action enqueued while the pass is in
\* progress is untouched in the queue when the pass ends; a pass that starts
\* processes everything that is queued then.
C11_SnapshotPass ==
    [][ ev'.kind \in {"pass_end", "pass_abort"}
           => /\ Ids(ev'.results) = Ids(SnapshotOfPass)
              /\ \A i \in 1..Len(pending_actions) :
                    (\A j \in 1..Len(SnapshotOfPass) :
                         SnapshotOfPass[j].id # pending_actions[i].id)
                       => \E k \in 1..Len(pending_actions') :
                             pending_actions'[k] = pending_actions[i] ]_vars

\* C12: no pass is given up because of an exception: an action whose
\* processing raised has the result Failed and is out of the queue, and the
\* pass goes on to its end.
C12_ExceptionIsolated ==
    /\ ev.kind # "pass_abort"
    /\ \A r \in Results :
          r.outcome = "exception" => (r.status = "failed" /\ ~ r.queued)

\* what processing the queued action a would do in the present state
Processing(a) == ProcessSingleBegin(World, last_on_done, a)

SameDevicesAndTimers(W) ==
    /\ W.devices = devices
    /\ W.last_downlink = last_downlink
    /\ W.scheduled_off_tasks = scheduled_off_tasks
    /\ W.tasks = tasks

\* C13: processing a queued action whose kind is none of pump_on, pump_off,
\* fan_on, fan_off, none returns Failed at once, removes it, and calls neither
\* the Relay Controller nor the transport.
C13_UnknownKindFails ==
    /\ \A i \in 1..Len(pending_actions) :
          pending_actions[i].action \notin KnownKinds
             => /\ Processing(pending_actions[i]).res = "returned"
                /\ Processing(pending_actions[i]).result.status = "failed"
                /\ ~ Processing(pending_actions[i]).result.queued
                /\ SameDevicesAndTimers(Processing(pending_actions[i]).W)
    /\ \A r \in Results :
          r.action \notin KnownKinds
             => (r.status = "failed" /\ ~ r.queued /\ r.dispatched = "none")

\* C14: processing a queued action of kind none returns Skipped, removes it,
\* calls neither the Relay Controller nor the transport and leaves the device
\* entries, last_downlink and the auto-off timers as they are.
C14_NoneSkipped ==
    /\ \A i \in 1..Len(pending_actions) :
          pending_actions[i].action = "none"
             => /\ Processing(pending_actions[i]).res = "returned"
                /\ Processing(pending_actions[i]).result.status = "skipped"
                /\ Processing(pending_actions[i]).result.dispatched = "none"
                /\ ~ Processing(pending_actions[i]).result.queued
                /\ SameDevicesAndTimers(Processing(pending_actions[i]).W)
    /\ \A r \in Results :
          r.action = "none"
             => (r.status = "skipped" /\ ~ r.queued /\ r.dispatched = "none")

\* a pass that processed an action of kind none after it had switched the
\* action's device on
C14_Witness ==
    /\ ev.kind = "pass_end"
    /\ \E r \in Results : r.action = "none" /\ r.status = "skipped" /\ r.id = 2
    /\ \E r \in Results : r.action = "pump_on" /\ r.status = "completed" /\ r.id = 1
    /\ devices["pump_01"].state = "on"

\* C15: a call of process_pending_actions that finds the queue empty returns
\* no result and changes neither the store nor the statistics.
C15_EmptyPassIsNoOp ==
    [][ (exec.pc = "idle" /\ pending_actions = <<>>
            /\ ev'.kind \in {"pass_end", "pass_abort", "pass_await"})
           => /\ ev'.kind = "pass_end" /\ ev'.results = <<>>
              /\ UNCHANGED <<devices, pending_actions, last_downlink, stats,
                             scheduled_off_tasks, tasks, calls, exec>> ]_vars

\* an empty pass after passes that have set the statistics, at a later time
C15_Witness ==
    /\ ev.kind = "pass_end" /\ ev.results = <<>>
    /\ stats.total_processed > 0 /\ stats.last_run # NULL /\ stats.last_run < now

\* the device entries and the time a sweep that made a step had read
SnapshotOfSweep == IF sweep.pc = "idle" THEN devices ELSE sweep.snap
TimeOfSweep == IF sweep.pc = "idle" THEN now ELSE sweep.at

Overdue(d) ==
    /\ d \in DOMAIN SnapshotOfSweep
    /\ SnapshotOfSweep[d].state = "on"
    /\ SnapshotOfSweep[d].scheduled_off # NULL
    /\ SnapshotOfSweep[d].scheduled_off <= TimeOfSweep

C22_UnknownDeviceNotRetried ==
    \A r \in Results :
        r.outcome = "unknown_device" => r.status = "failed" /\ ~ r.queued

\* ------------------------------------------------- relay controller claims
AliveTasks(d) == {i \in DOMAIN tasks : tasks[i].dev = d}

StateOf(ds, d) == IF d \in DOMAIN ds THEN ds[d].state ELSE "absent"

C7_OneArmedAutoOff ==
    \A d \in Devices : Cardinality(AliveTasks(d)) <= 1

\* a turn_on that found an auto-off armed, and armed its own
C7_Witness ==
    /\ ev.kind = "turn_on" /\ ev.result = "done"
    /\ ev.call.cancelled = "sleeping"
    /\ Cardinality(AliveTasks(ev.dev)) = 1

\* C8: a turn_on or turn_off that ends without success (unknown device,
\* transport failure or exception, cancellation) leaves the device entries and
\* last_downlink as they were; and the stored state of a device changes only
\* in the step of a successful turn_on (to on) or turn_off (to off) of it.
C8_FailureKeepsState ==
    [][ /\ (ev'.kind \in {"turn_on", "turn_off", "auto_off"} /\ ev'.result # "done")
            => (devices' = devices /\ last_downlink' = last_downlink)
        /\ \A d \in Devices \cup {UnknownDevice} :
              StateOf(devices', d) # StateOf(devices, d)
                 => /\ ev'.result = "done" /\ ev'.dev = d
                    /\ \/ ev'.kind = "turn_on" /\ StateOf(devices', d) = "on"
                       \/ ev'.kind \in {"turn_off", "auto_off"}
                            /\ StateOf(devices', d) = "off" ]_vars

\* a transport failure of a command for a device whose entry exists
C8_Witness ==
    /\ ev.kind \in {"turn_on", "turn_off"}
    /\ ev.outcome = "failure"
    /\ ev.dev \in DOMAIN devices

\* C9: a deferred auto-off that reaches the end of its delay without having
\* been cancelled, and whose OFF command the transport accepts, completes
\* turn_off: the device is stored off, scheduled_off null, reason
\* scheduled_auto_off.
C9_AutoOffCompletes ==
    (ev.kind = "auto_off" /\ ev.outcome = "success")
       => /\ ev.result = "done"
          /\ devices[ev.dev].state = "off"
          /\ devices[ev.dev].scheduled_off = NULL
          /\ devices[ev.dev].current_operation = "scheduled_auto_off"

\* C10: an auto-off that was armed before a turn_on which has succeeded never
\* switches the device off: it neither completes turn_off nor has an OFF
\* command accepted by the transport.
C10_CancelThenAct ==
    ~ (/\ ev.kind = "auto_off"
       /\ ev.stale = "succeeded"
       /\ (ev.outcome = "success" \/ ev.result = "done"))

\* a turn_on succeeded that cancelled an auto-off whose sleep was already over
C10_Witness ==
    /\ ev.kind = "turn_on" /\ ev.result = "done"
    /\ ev.call.cancelled = "due"
    /\ devices[ev.dev].state = "on"

\* --------------------------------------------------------- scheduler claims
Objs == DOMAIN task_objs

\* C17: no task has two executions of its callback in progress at once.
C17_OneExecutionAtATime ==
    \A o \in Objs : Cardinality(LoopRuns(o)) + Cardinality(ManualRuns(o)) <= 1

\* the step ends an execution in which the callback raised
CallbackRaised ==
    /\ sev'.kind = "exec_end" /\ sev'.outcome = "raised"
    /\ <<loops, manual>>' # <<loops, manual>>

\* C18: when a callback raises, the task it belongs to counts one failure
\* more, has last_error set and status failed, the execution yields none, the
\* loop that awaited it is alive and waits for the next interval whenever the
\* task is enabled and the scheduler not stopped, and every other task and
\* every other loop is as before.
C18_FailureRecordedLoopGoesOn ==
    [][CallbackRaised =>
        LET o == sev'.obj
            l == sev'.by
        IN /\ sev'.result = NULL
           /\ o \in DOMAIN task_objs' =>
                task_objs'[o] = [task_objs[o] EXCEPT !.failure_count = @ + 1,
                                                     !.last_error = 1,
                                                     !.status = "failed",
                                                     !.loop = task_objs'[o].loop]
           /\ \A p \in DOMAIN task_objs \ {o} :
                p \in DOMAIN task_objs' /\ task_objs'[p] = task_objs[p]
           /\ \A k \in DOMAIN loops \ {l} :
                k \in DOMAIN loops' /\ loops'[k] = loops[k]
           /\ sched_tasks' = sched_tasks
           /\ l \in DOMAIN loops /\ task_objs[o].enabled /\ ~ stop_event =>
                l \in DOMAIN loops' /\ loops'[l].pc = "wait" /\ ~ loops'[l].cancel
      ]_vars

\* a loop whose callback raised has waited for the interval and executes the
\* callback again, while another task has a loop of its own
C18_Witness ==
    /\ sev.kind = "exec_begin"
    /\ sev.by \in DOMAIN loops
    /\ loops[sev.by].raised
    /\ task_objs[sev.obj].failure_count >= 1
    /\ \E k \in DOMAIN loops : loops[k].obj # sev.obj

\* the step is a call of disable_task
Disables == sev'.kind = "disable" /\ made' # made

\* the step starts an execution of a callback
Begins == sev'.kind = "exec_begin" /\ task_objs' # task_objs

\* C19: after disable_task(name) no execution of that task is in flight that
\* has not been cancelled, the call leaves every other task's record, loops
\* and executions as they were, and no execution of a task starts between a
\* disable_task and the next enable_task for it.
C19_DisableStopsTask ==
    [][/\ Disables =>
            LET o == sev'.obj
            IN /\ InFlightLoops(loops', o) = {} /\ InFlightManual(manual', o) = {}
               /\ \A p \in DOMAIN task_objs \ {o} :
                    p \in DOMAIN task_objs' /\ task_objs'[p] = task_objs[p]
               /\ \A k \in DOMAIN loops :
                    loops[k].obj # o => k \in DOMAIN loops' /\ loops'[k] = loops[k]
               /\ manual' = manual
       /\ Begins => ~ task_objs[sev'.obj].disabled
      ]_vars

\* the step is a call of stop() on a running scheduler
StopCalled == is_running /\ ~ is_running'

\* the step is the end of the timeout of stop()
StopTimedOut == stopper.pc = "waiting" /\ stopper'.pc = "cancelling"

\* stop() has returned and start() has not been called since stop() began
StopReturned == stopper.quiet

\* what stop() does on the way: it sets the stop signal, which wakes every
\* loop that waits for its interval; a woken loop ends without executing; at
\* the timeout every loop stop() waits for is cancelled
StopSteps ==
    /\ StopCalled => stop_event'
    /\ StopCalled =>
         \A l \in DOMAIN loops : loops[l].pc = "wait" => loops'[l].pc = "signalled"
    /\ \A l \in DOMAIN loops :
         loops[l].pc = "signalled" /\ l \in DOMAIN loops' => loops'[l].pc = "signalled"
    /\ StopTimedOut =>
         \A l \in stopper.running_tasks \cap DOMAIN loops : loops'[l].cancel

\* a stop() in progress returns
StopTerminates == (stopper.pc # "idle") ~> (stopper.pc = "idle")

\* C20 as stated: stop() terminates, it sets the stop signal, a loop that
\* waits for its interval then ends without executing, the loops alive at the
\* timeout are cancelled, and once stop() has returned is_running is false, no
\* loop is alive and no execution of a callback starts before start() is
\* called.
C20_StopQuiesces ==
    /\ StopTerminates
    /\ [][/\ StopSteps
          /\ StopReturned' => ~ is_running' /\ loops' = Empty
          /\ StopReturned /\ Begins => FALSE
         ]_vars

\* C20 for the loops: stop() terminates and does the same on the way, but
\* once it has returned the only loops alive are loops that remove_task
\* cancelled and that have not run since, and no loop starts an execution
\* before start() is called; run_task_once still does.
C20_StopQuiescesLoops ==
    /\ StopTerminates
    /\ [][/\ StopSteps
          /\ StopReturned' => ~ is_running' /\ \A l \in DOMAIN loops' : loops'[l].cancel
          /\ StopReturned /\ Begins => sev'.by = ByManual
         ]_vars

\* stop() has returned after its timeout ended and it cancelled a loop, and a
\* task is registered
C20_Witness ==
    /\ sev.kind = "stop_return"
    /\ StopReturned /\ stopper.forced
    /\ sched_tasks # Empty

\* the step is a call of add_task or remove_task
AddCalled == sev'.kind = "add" /\ made' # made
RemoveCalled == sev'.kind = "remove" /\ made' # made

\* the registry, the task objects, the loops and the executions in progress
Registry == <<sched_tasks, task_objs, loops, manual, is_running, stop_event, stopper>>

\* C21: add_task of a registered name returns false and leaves the registered
\* task, its statistics and its loop as they were; remove_task of a name that
\* is not registered returns false and changes nothing; a registered name
\* refers to one task object, which carries that name and no other name
\* refers to.
C21_NamesUnique ==
    [][/\ AddCalled /\ sev'.name \in DOMAIN sched_tasks =>
            sev'.outcome = "false" /\ Registry' = Registry
       /\ AddCalled /\ sev'.name \notin DOMAIN sched_tasks => sev'.outcome = "true"
       /\ RemoveCalled /\ sev'.name \notin DOMAIN sched_tasks =>
            sev'.outcome = "false" /\ Registry' = Registry
       /\ \A n \in DOMAIN sched_tasks' :
            /\ sched_tasks'[n] \in DOMAIN task_objs'
            /\ task_objs'[sched_tasks'[n]].name = n
       /\ \A n1, n2 \in DOMAIN sched_tasks' :
            sched_tasks'[n1] = sched_tasks'[n2] => n1 = n2
      ]_vars

\* add_task was called for the name of a task whose loop is alive and which
\* has run, and returned false
C21_Witness ==
    /\ sev.kind = "add" /\ sev.outcome = "false"
    /\ sev.name \in DOMAIN sched_tasks
    /\ task_objs[sched_tasks[sev.name]].run_count >= 1
    /\ LoopAlive(loops, task_objs[sched_tasks[sev.name]].loop)

\* --------------------------------------------- relay controller claims, II
\* the step is a direct turn_on or turn_off that was answered "Unknown device"
UnknownDeviceAnswered == ev'.result = "unknown_device" /\ ncalls' # ncalls

\* C23: turn_on or turn_off for a device that is not in the device
\* configuration returns a failure with "Unknown device", sends no transport
\* command and leaves the stored device states and every armed auto-off as
\* they were; a call for such a device is never sent to the transport.
C23_UnknownDeviceNoEffect ==
    [][/\ UnknownDeviceAnswered =>
            /\ ev'.dev \notin Devices
            /\ UNCHANGED <<devices, scheduled_off_tasks, tasks, calls, last_downlink,
                           pending_actions>>
       /\ \A c \in DOMAIN calls' : calls'[c].dev \in Devices
       /\ (ncalls' # ncalls /\ ev'.dev \notin Devices /\ ev'.kind # "schedule_off")
            => ev'.result = "unknown_device"
      ]_vars

\* a call for an unknown device was answered while a device is on with an
\* auto-off armed
C23_Witness ==
    /\ ev.result = "unknown_device" /\ ev.dev = UnknownDevice
    /\ \E d \in DOMAIN scheduled_off_tasks :
          d \in DOMAIN devices /\ devices[d].state = "on"

\* the step is a call of shutdown()
ShutdownCalled == ev'.kind = "shutdown"

\* C24: when shutdown() returns no auto-off is registered for any device and
\* no auto-off task is alive, so none of those it cancelled can send an OFF
\* command or change a device's state later; shutdown() itself sends no
\* command and changes no device state.
C24_ShutdownCancelsAll ==
    [][ShutdownCalled =>
          /\ scheduled_off_tasks' = Empty
          /\ tasks' = Empty
          /\ UNCHANGED <<devices, calls, last_downlink, pending_actions>>
      ]_vars

\* shutdown() has cancelled the auto-offs of both devices, which are on
C24_Witness ==
    /\ ev.kind = "shutdown"
    /\ Len(ev.triggered) = Cardinality(Devices)
    /\ \A d \in Devices : devices[d].state = "on" /\ devices[d].scheduled_off # NULL

\* C25: an auto-off that ends cancelled has had no OFF command accepted by
\* the transport and has changed no device state, wherever it was cancelled.
C25_CancelledAutoOffSilent ==
    [][(ev'.kind = "auto_off" /\ ev'.result = "cancelled" /\ tasks' # tasks)
          => ev'.outcome # "success" /\ devices' = devices
      ]_vars

\* --------------------------------------------------- scheduler claims, II
\* the step ends an execution of a callback
Ends == sev'.kind = "exec_end" /\ <<loops, manual>>' # <<loops, manual>>

\* the step is a call of run_task_once for a name that is not registered
NotFound == sev'.kind = "not_found" /\ made' # made

\* C26: run_task_once(name) starts one execution of the callback, and an
\* execution changes the task's record in the same way whether run_task_once
\* or the task's loop started it: run_count + 1 and status running when it
\* starts, then success_count + 1 and status completed with the callback's
\* result returned, or failure_count + 1, last_error and status failed with
\* none returned; for a name that is not registered run_task_once returns none
\* and changes nothing.
C26_RunOnceRecordsAsScheduled ==
    [][LET o == sev'.obj
       IN /\ Begins =>
               task_objs'[o] = [task_objs[o] EXCEPT !.run_count = @ + 1,
                                                    !.status = "running"]
          /\ Begins /\ sev'.by = ByManual =>
               /\ Cardinality(DOMAIN manual') = Cardinality(DOMAIN manual) + 1
               /\ loops' = loops
          /\ Ends /\ sev'.outcome = "returned" =>
               /\ sev'.result = "result"
               /\ o \in DOMAIN task_objs' =>
                    task_objs'[o] = [task_objs[o] EXCEPT !.success_count = @ + 1,
                                                         !.status = "completed",
                                                         !.loop = task_objs'[o].loop]
          /\ Ends /\ sev'.outcome = "raised" =>
               /\ sev'.result = NULL
               /\ o \in DOMAIN task_objs' =>
                    task_objs'[o] = [task_objs[o] EXCEPT !.failure_count = @ + 1,
                                                         !.last_error = 1,
                                                         !.status = "failed",
                                                         !.loop = task_objs'[o].loop]
          /\ Ends /\ sev'.by = ByManual =>
               Cardinality(DOMAIN manual') = Cardinality(DOMAIN manual) - 1
          /\ NotFound =>
               /\ sev'.name \notin DOMAIN sched_tasks
               /\ sev'.result = NULL
               /\ Registry' = Registry
      ]_vars

\* a run_task_once of a task that its loop has executed before has ended with
\* the callback raising
C26_Witness ==
    /\ sev.kind = "exec_end" /\ sev.by = ByManual /\ sev.outcome = "raised"
    /\ sev.obj \in DOMAIN task_objs
    /\ task_objs[sev.obj].run_count >= 2
    /\ task_objs[sev.obj].success_count >= 1
    /\ LoopAlive(loops, task_objs[sev.obj].loop)

\* ------------------------------------------------------- state store claims
\* The data of a document: what it holds apart from the time stamp
Data(doc) == [k \in (DOMAIN doc) \ {"timestamp"} |-> doc[k]]

\* What the calls of the threads leave in the file when they run one after
\* the other in the given order
RECURSIVE Serial(_, _, _)
Serial(doc, order, i) ==
    IF i > Len(order) THEN doc
    ELSE LET c == store_calls[order[i]] IN
         Serial(IF c.op = "update" THEN DeepMerge(doc, c.arg) ELSE c.arg, order, i + 1)

Returned == {t \in Threads : store_calls[t].pc = "done"}
Quiet == \A t \in Threads : store_calls[t].pc \in {"idle", "done"}

\* C27: update is an atomic read-modify-write: once the concurrent updates
\* and writes of a section have returned, the stored section is what they
\* leave when run one after the other in some order, so no update is lost
\* between its read and its write.
C27_UpdateAtomic ==
    Quiet => \A n \in StateNames :
                 \E order \in Orders(Returned) :
                     Data(state_files[n]) = Data(Serial(Template, order, 1))

\* ------------------------------------------------------ executor claims, II
InQueue(q, id) == \E i \in 1..Len(q) : q[i].id = id

\* the results of a pass for actions that were handed to the controller
Dispatches(rs) == {i \in 1..Len(rs) : rs[i].dispatched # "none"}
DispatchedOncePerPass ==
    \A i, j \in Dispatches(ev.results) :
        ev.results[i].id = ev.results[j].id => i = j

\* process_pending_actions returns; Snapshot: the queue as the pass read it
PassReturns ==
    /\ ev'.kind \in {"pass_end", "pass_abort"}
    /\ exec.pc = "await" \/ stats' # stats \/ ev' # ev
Snapshot == IF exec.pc = "await" THEN exec.snap ELSE pending_actions

\* the pass has removed the action or counted one more retry for it
Progress(q, a) ==
    \A i \in 1..Len(q) : q[i].id = a.id => q[i].retry_count > a.retry_count

\* C28: a pass hands each action to the Relay Controller at most once, and
\* every action in the queue leaves it after a bounded number of passes,
\* whatever the transport answers: a pass that returns has removed each
\* action it read or counted one more retry for it, and no retry count
\* exceeds max_retries.
C28_BoundedQueueResidentRetry ==
    /\ [] DispatchedOncePerPass
    /\ [] (\A i \in 1..Len(pending_actions) :
               pending_actions[i].retry_count <= max_retries)
    /\ [][PassReturns =>
              \A i \in 1..Len(Snapshot) : Progress(pending_actions', Snapshot[i])]_vars

\* the results of an ON action that the interval check refused
IntervalSkips(rs) ==
    {i \in 1..Len(rs) : rs[i].status = "skipped" /\ IsOnAction(rs[i].action)}

\* a pass that ran from its call to its return in this step and refused
\* every action it read
SkipsOnly ==
    /\ exec.pc = "idle" /\ ev'.kind = "pass_end" /\ stats' # stats
    /\ IntervalSkips(ev'.results) = 1..Len(ev'.results)

\* the ON actions in the queue that the interval check refuses now
Refused ==
    {i \in 1..Len(pending_actions) :
        LET a == pending_actions[i]
        IN a.device # NoDevice /\ a.action # NotAString /\ IsOnAction(a.action)
           /\ ~ CheckActionInterval(World, a.device, a.action)}

\* C29: an ON action refused by the interval check gets Skipped with a
\* reason and is removed from the queue, and nothing else changes: no
\* controller or transport call, and device state, scheduled_off, armed
\* auto-off and last_on_action_time as before.
C29_IntervalSkipFrame ==
    /\ [] (\A r \in Results :
               r.status = "skipped" /\ IsOnAction(r.action)
                   => r.error # "none" /\ ~ r.queued /\ r.dispatched = "none")
    /\ [] (\A i \in Refused :
               LET a == pending_actions[i]
                   p == ProcessSingleBegin(World, last_on_done, a)
               IN /\ p.res = "returned" /\ p.result.status = "skipped"
                  /\ p.W = [World EXCEPT !.pending_actions =
                                SelectSeq(pending_actions, LAMBDA b : b.id # a.id)])
    /\ [][SkipsOnly =>
              /\ UNCHANGED <<devices, scheduled_off_tasks, tasks, calls, last_downlink,
                             last_on_done, ncalls>>
              /\ pending_actions' = SelectSeq(pending_actions,
                     LAMBDA b : \A i \in 1..Len(ev'.results) : ev'.results[i].id # b.id)]_vars

\* the pump is on with its auto-off armed, and an ON action for it was refused
C29_Witness ==
    /\ ev.kind = "pass_end"
    /\ \E r \in Results :
           /\ r.status = "skipped" /\ IsOnAction(r.action) /\ r.error # "none"
           /\ r.device \in DOMAIN devices
           /\ devices[r.device].state = "on"
           /\ devices[r.device].scheduled_off # NULL
           /\ r.device \in DOMAIN scheduled_off_tasks

\* last_on_action_time of a device entry, None without entry
LastOnActionTime(D, d) == IF d \in DOMAIN D THEN D[d].last_on_action_time ELSE NULL

\* the controller answers the executor; Answered: the result of the action
\* that was waiting for the answer
ControllerAnswers ==
    exec.pc = "await" /\ ev'.kind \in {"pass_end", "pass_await", "pass_abort"}
Answered == ev'.results[Len(exec.results) + 1]

LoopsStopped ==
    {l \in DOMAIN loops \ DOMAIN loops' :
        stop_event' \/ ~ task_objs[loops[l].obj].enabled}

\* C31: a task whose loop has ended because of stop() or disable_task() has
\* status cancelled: when the loop ends, when disable_task has cancelled the
\* loop, and when stop() returns, for every enabled task, which had a loop.
C31_StoppedTaskIsCancelled ==
    [][/\ \A l \in LoopsStopped :
            loops[l].obj \in DOMAIN task_objs'
                => task_objs'[loops[l].obj].status = "cancelled"
       /\ Disables /\ LoopAlive(loops, task_objs[sev'.obj].loop)
            => task_objs'[sev'.obj].status = "cancelled"
       /\ sev'.kind = "stop_return" /\ StopReturned' /\ stopper' # stopper /\ manual = Empty
            => \A n \in DOMAIN sched_tasks :
                   task_objs[sched_tasks[n]].enabled
                       => task_objs'[sched_tasks[n]].status = "cancelled"
      ]_vars

\* time since start(), and the part of it the loop of a task has not spent in
\* its callback
Elapsed == clock - timed_started
Idle(n) == Elapsed - timed_loops[n].busy

\* the scheduler runs, the loop of the task is alive and no loop can run now
Looping(n) ==
    /\ TimedRunning /\ Settled
    /\ n \in DOMAIN timed_loops /\ timed_loops[n].pc # "done"

\* without run_immediately nothing is executed before one interval has
\* elapsed, and a task registered with enabled=false has no loop and executes
\* nothing
NoEarlyExecution ==
    /\ Looping("t2") /\ Elapsed < IntervalTicks => timed_tasks["t2"].run_count = 0
    /\ "t3" \notin DOMAIN timed_loops /\ timed_tasks["t3"].run_count = 0

\* C32 as stated: with run_immediately the run_count is at least k + 1 after
\* k whole intervals since start(); without it nothing is executed before one
\* interval has elapsed; a task registered with enabled=false executes nothing.
C32_PeriodicExecution ==
    /\ Looping("t1") =>
           timed_tasks["t1"].run_count >= (Elapsed \div IntervalTicks) + 1
    /\ NoEarlyExecution

\* C32 with the interval counted from the end of the previous execution: with
\* run_immediately the run_count is at least k + 1 once k whole intervals
\* have elapsed since start() apart from the time the callback has been
\* executing, and each wait ends one interval after the execution before it
\* ended; the rest as stated.
C32_PeriodicExecutionFixedDelay ==
    /\ Looping("t1") =>
           /\ timed_tasks["t1"].run_count >= (Idle("t1") \div IntervalTicks) + 1
           /\ timed_tasks["t1"].run_count >= 1
    /\ Looping("t2") =>
           timed_tasks["t2"].run_count >= Idle("t2") \div IntervalTicks
    /\ NoEarlyExecution

\* two and a half intervals after start() the task with run_immediately has
\* executed twice, the second time for one interval, and waits
C32_Witness ==
    /\ Looping("t1") /\ timed_started = 0
    /\ Elapsed = 2 * IntervalTicks + 1
    /\ timed_tasks["t1"].run_count = 2
    /\ timed_loops["t1"].pc = "wait" /\ timed_loops["t1"].busy = IntervalTicks

\* ------------------------------------------------ relay controller claims, II
\* the step in which a turn_off (direct or run by an auto-off) ends in success
TurnOffSucceeds == ev'.kind \in {"turn_off", "auto_off"} /\ ev'.result = "done"

\* the entry turn_off finds stored for the device its answer is about
Stored(d) == IF d \in DOMAIN devices THEN devices[d] ELSE NewDeviceEntry

\* C33: a successful turn_off cancels any armed auto-off and stores state off
\* and scheduled_off null; if the device was stored on, last_on_duration_minutes
\* becomes the time elapsed since last_changed and total_on_time_today_minutes
\* grows by exactly that amount; if it was stored off, the daily total is
\* unchanged.
C33_TurnOffBookkeeping ==
    [][TurnOffSucceeds =>
          LET d   == ev'.dev
              old == Stored(d)
              new == devices'[d]
          IN /\ new.state = "off"
             /\ new.scheduled_off = NULL
             /\ {i \in DOMAIN tasks' : tasks'[i].dev = d} = {}
             /\ (old.state = "on" /\ old.last_changed # NULL)
                   => /\ new.last_on_duration_minutes = new.last_changed - old.last_changed
                      /\ new.total_on_time_today_minutes =
                            old.total_on_time_today_minutes + new.last_on_duration_minutes
             /\ old.state = "off"
                   => new.total_on_time_today_minutes = old.total_on_time_today_minutes
      ]_vars

\* C34: after every turn_on and turn_off of a device, the command failed or
\* not, a device stored on with a scheduled_off has a deferred auto-off armed
\* (the Relay Controller of this specification is never shut down).
C34_OnWithDeadlineIsArmed ==
    (/\ ev.kind \in {"turn_on", "turn_off"}
     /\ ev.dev \in DOMAIN devices
     /\ devices[ev.dev].state = "on"
     /\ devices[ev.dev].scheduled_off # NULL)
        => AliveTasks(ev.dev) # {}

\* ------------------------------------------------------ executor claims, III
Times(q, id) == Cardinality({i \in 1..Len(q) : q[i].id = id})

\* C35: each queued action results in at most one successful relay command
\* over its whole life, also when an invocation of process_pending_actions by
\* the task's loop and one by run_task_once overlap.
C35_OneCommandPerAction ==
    \A id \in 1..MaxActions : Times(applied, id) <= 1

\* C36: for one device, actions take effect in the order they were enqueued
\* (ids are handed out in that order): of two actions of the same device whose
\* commands have both been applied, the one enqueued first was applied first,
\* also when it failed on its first attempt and stayed queued for a retry.
C36_PerDeviceOrder ==
    \A i \in 1..Len(applied), j \in 1..Len(applied) :
        (i < j /\ applied[i].device = applied[j].device)
            => applied[i].id <= applied[j].id

\* C37: check_scheduled_shutoffs issues an OFF command for a device only if,
\* at that moment, the device is stored on with a scheduled_off in the past; a
\* device that was turned on again, with a new scheduled_off, while the sweep
\* was suspended in the turn_off of another device is not turned off by it.
C37_SweepChecksAtIssue ==
    [][ ev'.kind = "sweep_await"
           => /\ ev'.call.dev \in DOMAIN devices
              /\ devices[ev'.call.dev].state = "on"
              /\ devices[ev'.call.dev].scheduled_off # NULL
              /\ devices[ev'.call.dev].scheduled_off <= now
      ]_vars

\* C38: in every reachable state and for every device, stored state off
\* implies scheduled_off null, and an armed auto-off created by turn_on
\* implies that the device is stored on with a scheduled_off.
C38_StoreAndAutoOffAgree ==
    /\ \A d \in DOMAIN devices :
          devices[d].state = "off" => devices[d].scheduled_off = NULL
    /\ \A i \in DOMAIN tasks :
          tasks[i].by = "turn_on"
             => /\ tasks[i].dev \in DOMAIN devices
                /\ devices[tasks[i].dev].state = "on"
                /\ devices[tasks[i].dev].scheduled_off # NULL

\* ------------------------------------------------------ scheduler claims, IV
\* the executions of task object o that have begun and not ended
Executing(L, M, o) ==
    Cardinality({l \in DOMAIN L : L[l].obj = o /\ L[l].pc = "exec"})
        + Cardinality({m \in DOMAIN M : M[m].obj = o})

\* C39: for every task, after any sequence of scheduled executions,
\* run_task_once calls, disable_task and stop, success_count + failure_count
\* <= run_count, and the two sides are equal whenever no execution of the
\* task is in flight.
C39_CountersAddUp ==
    \A o \in DOMAIN task_objs :
        /\ task_objs[o].success_count + task_objs[o].failure_count <= task_objs[o].run_count
        /\ Executing(loops, manual, o) = 0
              => task_objs[o].success_count + task_objs[o].failure_count
                    = task_objs[o].run_count

\* run_count less the executions that ended in success or failure or have
\* not ended
Unaccounted(O, L, M, o) ==
    O[o].run_count - O[o].success_count - O[o].failure_count - Executing(L, M, o)

\* the step delivers a cancellation to a loop of o that executes the callback
CancelsExecution(o) ==
    /\ sev'.kind = "cancelled" /\ sev'.obj = o
    /\ sev'.by \in DOMAIN loops /\ loops[sev'.by].pc = "exec"

\* C39, amended: success_count + failure_count <= run_count, and run_count
\* exceeds their sum by the executions in flight plus the executions that a
\* cancellation ended (no step but such a cancellation changes the rest): the
\* two sides are equal whenever no execution of the task is in flight and
\* none has been cancelled.
C39_CountersAddUpButCancelled ==
    [][\A o \in DOMAIN task_objs' :
          /\ task_objs'[o].success_count + task_objs'[o].failure_count
                <= task_objs'[o].run_count
          /\ o \in DOMAIN task_objs
                => Unaccounted(task_objs', loops', manual', o)
                      = Unaccounted(task_objs, loops, manual, o)
                          + (IF CancelsExecution(o) THEN 1 ELSE 0)
          /\ o \notin DOMAIN task_objs
                => Unaccounted(task_objs', loops', manual', o) = 0
      ]_vars

\* an execution of a task was cancelled by disable_task: it is counted as a
\* run and as nothing else
C39_Witness ==
    /\ sev.kind = "cancelled"
    /\ sev.obj \in DOMAIN task_objs
    /\ task_objs[sev.obj].disabled
    /\ task_objs[sev.obj].run_count = 1
    /\ task_objs[sev.obj].success_count + task_objs[sev.obj].failure_count = 0
    /\ Executing(loops, manual, sev.obj) = 0

====
